---------------------------- MODULE Spec2Model ----------------------------
(***************************************************************************)
(* Verification model of math-convert: the text-syntax tokenizer and       *)
(* recursive-descent parser (src/src/lexer.js, src/src/text-to-ast.js),    *)
(* the normalizer "flatten" and the text printer (src/src/ast-to-text.js). *)
(*                                                                         *)
(* Strings are sequences of one-character strings.  A character outside    *)
(* ASCII is written "U+XXXX" (its code point) and counts as ONE character. *)
(* Trees (JS arrays / strings / numbers / booleans) are records of one     *)
(* uniform shape, see Sym, Num, Bool, Node, False.                         *)
(***************************************************************************)
EXTENDS Integers, Sequences, FiniteSets, TLC

VARIABLES job, pc, out1, text1, out2, text2, locals

vars == <<job, pc, out1, text1, out2, text2, locals>>

(***************************************************************************)
(* Characters                                                              *)
(***************************************************************************)
Digits == {"0", "1", "2", "3", "4", "5", "6", "7", "8", "9"}

LowerLetters ==
  {"a", "b", "c", "d", "e", "f", "g", "h", "i", "j", "k", "l", "m",
   "n", "o", "p", "q", "r", "s", "t", "u", "v", "w", "x", "y", "z"}

UpperLetters ==
  {"A", "B", "C", "D", "E", "F", "G", "H", "I", "J", "K", "L", "M",
   "N", "O", "P", "Q", "R", "S", "T", "U", "V", "W", "X", "Y", "Z"}

Letters == LowerLetters \cup UpperLetters

\* the regular-expression class \w, which decides where \b matches
WordChars == Letters \cup Digits \cup {"_"}

\* the regular-expression class \s, restricted to the blank
Whitespace == {" "}

\* a value given a name: var x = v; ... x ... x ...
Let(v, F(_)) == F(v)

Drop(k, str) == SubSeq(str, k, Len(str))

IsPrefix(p, str) == Len(p) <= Len(str) /\ SubSeq(str, 1, Len(p)) = p

RECURSIVE CountIn(_, _, _)
\* number of consecutive characters of str, from position k on, that are in S
CountIn(S, str, k) ==
  IF k > Len(str) \/ str[k] \notin S THEN 0 ELSE 1 + CountIn(S, str, k + 1)

\* \b after position k of str, when str[k] is a word character
BoundaryAfter(str, k) == k >= Len(str) \/ str[k + 1] \notin WordChars

(***************************************************************************)
(* src/src/text-to-ast.js: the lexical table text_rules.  m names the      *)
(* shape of the pattern: "lit" a literal, "word" a literal followed by \b, *)
(* the others the patterns matched by the operators below.  lit says       *)
(* whether the rule has a third element, text.                             *)
(***************************************************************************)
text_rules ==
  <<
     [m |-> "num1", p |-> <<>>, type |-> "NUMBER", lit |-> FALSE, text |-> <<>>],
     [m |-> "num2", p |-> <<>>, type |-> "NUMBER", lit |-> FALSE, text |-> <<>>],
     [m |-> "lit", p |-> <<"*", "*">>, type |-> "^", lit |-> FALSE, text |-> <<>>],
     [m |-> "lit", p |-> <<"*">>, type |-> "*", lit |-> FALSE, text |-> <<>>],
     [m |-> "lit", p |-> <<"U+00B7">>, type |-> "*", lit |-> FALSE, text |-> <<>>],
     [m |-> "lit", p |-> <<"U+00B7">>, type |-> "*", lit |-> FALSE, text |-> <<>>],
     [m |-> "lit", p |-> <<"U+2022">>, type |-> "*", lit |-> FALSE, text |-> <<>>],
     [m |-> "lit", p |-> <<"U+22C5">>, type |-> "*", lit |-> FALSE, text |-> <<>>],
     [m |-> "lit", p |-> <<"U+00D7">>, type |-> "*", lit |-> FALSE, text |-> <<>>],
     [m |-> "lit", p |-> <<"/">>, type |-> "/", lit |-> FALSE, text |-> <<>>],
     [m |-> "lit", p |-> <<"-">>, type |-> "-", lit |-> FALSE, text |-> <<>>],
     [m |-> "lit", p |-> <<"U+058A">>, type |-> "-", lit |-> FALSE, text |-> <<>>],
     [m |-> "lit", p |-> <<"U+05BE">>, type |-> "-", lit |-> FALSE, text |-> <<>>],
     [m |-> "lit", p |-> <<"U+1806">>, type |-> "-", lit |-> FALSE, text |-> <<>>],
     [m |-> "lit", p |-> <<"U+2010">>, type |-> "-", lit |-> FALSE, text |-> <<>>],
     [m |-> "lit", p |-> <<"U+2011">>, type |-> "-", lit |-> FALSE, text |-> <<>>],
     [m |-> "lit", p |-> <<"U+2012">>, type |-> "-", lit |-> FALSE, text |-> <<>>],
     [m |-> "lit", p |-> <<"U+2013">>, type |-> "-", lit |-> FALSE, text |-> <<>>],
     [m |-> "lit", p |-> <<"U+2014">>, type |-> "-", lit |-> FALSE, text |-> <<>>],
     [m |-> "lit", p |-> <<"U+2015">>, type |-> "-", lit |-> FALSE, text |-> <<>>],
     [m |-> "lit", p |-> <<"U+207B">>, type |-> "-", lit |-> FALSE, text |-> <<>>],
     [m |-> "lit", p |-> <<"U+208B">>, type |-> "-", lit |-> FALSE, text |-> <<>>],
     [m |-> "lit", p |-> <<"U+2212">>, type |-> "-", lit |-> FALSE, text |-> <<>>],
     [m |-> "lit", p |-> <<"U+2E3A">>, type |-> "-", lit |-> FALSE, text |-> <<>>],
     [m |-> "lit", p |-> <<"U+2E3B">>, type |-> "-", lit |-> FALSE, text |-> <<>>],
     [m |-> "lit", p |-> <<"U+FE58">>, type |-> "-", lit |-> FALSE, text |-> <<>>],
     [m |-> "lit", p |-> <<"U+FE63">>, type |-> "-", lit |-> FALSE, text |-> <<>>],
     [m |-> "lit", p |-> <<"U+FF0D">>, type |-> "-", lit |-> FALSE, text |-> <<>>],
     [m |-> "lit", p |-> <<"+">>, type |-> "+", lit |-> FALSE, text |-> <<>>],
     [m |-> "lit", p |-> <<"^">>, type |-> "^", lit |-> FALSE, text |-> <<>>],
     [m |-> "lit", p |-> <<"U+2038">>, type |-> "^", lit |-> FALSE, text |-> <<>>],
     [m |-> "lit", p |-> <<"U+028C">>, type |-> "^", lit |-> FALSE, text |-> <<>>],
     [m |-> "lit", p |-> <<"|">>, type |-> "|", lit |-> FALSE, text |-> <<>>],
     [m |-> "lit", p |-> <<"(">>, type |-> "(", lit |-> FALSE, text |-> <<>>],
     [m |-> "lit", p |-> <<")">>, type |-> ")", lit |-> FALSE, text |-> <<>>],
     [m |-> "lit", p |-> <<"[">>, type |-> "[", lit |-> FALSE, text |-> <<>>],
     [m |-> "lit", p |-> <<"]">>, type |-> "]", lit |-> FALSE, text |-> <<>>],
     [m |-> "lit", p |-> <<"{">>, type |-> "{", lit |-> FALSE, text |-> <<>>],
     [m |-> "lit", p |-> <<"}">>, type |-> "}", lit |-> FALSE, text |-> <<>>],
     [m |-> "lit", p |-> <<",">>, type |-> ",", lit |-> FALSE, text |-> <<>>],
     [m |-> "lit", p |-> <<"U+03B1">>, type |-> "VARMULTICHAR", lit |-> TRUE, text |-> <<"a", "l", "p", "h", "a">>],
     [m |-> "lit", p |-> <<"U+03B2">>, type |-> "beta", lit |-> FALSE, text |-> <<>>],
     [m |-> "lit", p |-> <<"U+03D0">>, type |-> "VARMULTICHAR", lit |-> TRUE, text |-> <<"b", "e", "t", "a">>],
     [m |-> "lit", p |-> <<"U+0393">>, type |-> "VARMULTICHAR", lit |-> TRUE, text |-> <<"G", "a", "m", "m", "a">>],
     [m |-> "lit", p |-> <<"U+03B3">>, type |-> "VARMULTICHAR", lit |-> TRUE, text |-> <<"g", "a", "m", "m", "a">>],
     [m |-> "lit", p |-> <<"U+0394">>, type |-> "VARMULTICHAR", lit |-> TRUE, text |-> <<"D", "e", "l", "t", "a">>],
     [m |-> "lit", p |-> <<"U+03B4">>, type |-> "VARMULTICHAR", lit |-> TRUE, text |-> <<"d", "e", "l", "t", "a">>],
     [m |-> "lit", p |-> <<"U+03B5">>, type |-> "VARMULTICHAR", lit |-> TRUE, text |-> <<"e", "p", "s", "i", "l", "o", "n">>],
     [m |-> "lit", p |-> <<"U+03F5">>, type |-> "VARMULTICHAR", lit |-> TRUE, text |-> <<"e", "p", "s", "i", "l", "o", "n">>],
     [m |-> "lit", p |-> <<"U+03B6">>, type |-> "VARMULTICHAR", lit |-> TRUE, text |-> <<"z", "e", "t", "a">>],
     [m |-> "lit", p |-> <<"U+03B7">>, type |-> "VARMULTICHAR", lit |-> TRUE, text |-> <<"e", "t", "a">>],
     [m |-> "lit", p |-> <<"U+0398">>, type |-> "VARMULTICHAR", lit |-> TRUE, text |-> <<"T", "h", "e", "t", "a">>],
     [m |-> "lit", p |-> <<"U+03F4">>, type |-> "VARMULTICHAR", lit |-> TRUE, text |-> <<"T", "h", "e", "t", "a">>],
     [m |-> "lit", p |-> <<"U+03B8">>, type |-> "VARMULTICHAR", lit |-> TRUE, text |-> <<"t", "h", "e", "t", "a">>],
     [m |-> "lit", p |-> <<"U+1DBF">>, type |-> "VARMULTICHAR", lit |-> TRUE, text |-> <<"t", "h", "e", "t", "a">>],
     [m |-> "lit", p |-> <<"U+03D1">>, type |-> "VARMULTICHAR", lit |-> TRUE, text |-> <<"t", "h", "e", "t", "a">>],
     [m |-> "lit", p |-> <<"U+03B9">>, type |-> "VARMULTICHAR", lit |-> TRUE, text |-> <<"i", "o", "t", "a">>],
     [m |-> "lit", p |-> <<"U+03BA">>, type |-> "VARMULTICHAR", lit |-> TRUE, text |-> <<"k", "a", "p", "p", "a">>],
     [m |-> "lit", p |-> <<"U+039B">>, type |-> "VARMULTICHAR", lit |-> TRUE, text |-> <<"L", "a", "m", "b", "d", "a">>],
     [m |-> "lit", p |-> <<"U+03BB">>, type |-> "VARMULTICHAR", lit |-> TRUE, text |-> <<"l", "a", "m", "b", "d", "a">>],
     [m |-> "lit", p |-> <<"U+03BC">>, type |-> "VARMULTICHAR", lit |-> TRUE, text |-> <<"m", "u">>],
     [m |-> "lit", p |-> <<"U+00B5">>, type |-> "VARMULTICHAR", lit |-> TRUE, text |-> <<"m", "u">>],
     [m |-> "lit", p |-> <<"U+03BD">>, type |-> "VARMULTICHAR", lit |-> TRUE, text |-> <<"n", "u">>],
     [m |-> "lit", p |-> <<"U+039E">>, type |-> "VARMULTICHAR", lit |-> TRUE, text |-> <<"X", "i">>],
     [m |-> "lit", p |-> <<"U+03BE">>, type |-> "VARMULTICHAR", lit |-> TRUE, text |-> <<"x", "i">>],
     [m |-> "lit", p |-> <<"U+03A0">>, type |-> "VARMULTICHAR", lit |-> TRUE, text |-> <<"P", "i">>],
     [m |-> "lit", p |-> <<"U+03C0">>, type |-> "VARMULTICHAR", lit |-> TRUE, text |-> <<"p", "i">>],
     [m |-> "lit", p |-> <<"U+03D6">>, type |-> "VARMULTICHAR", lit |-> TRUE, text |-> <<"p", "i">>],
     [m |-> "lit", p |-> <<"U+03C1">>, type |-> "VARMULTICHAR", lit |-> TRUE, text |-> <<"r", "h", "o">>],
     [m |-> "lit", p |-> <<"U+03F1">>, type |-> "VARMULTICHAR", lit |-> TRUE, text |-> <<"r", "h", "o">>],
     [m |-> "lit", p |-> <<"U+03A3">>, type |-> "VARMULTICHAR", lit |-> TRUE, text |-> <<"S", "i", "g", "m", "a">>],
     [m |-> "lit", p |-> <<"U+03C3">>, type |-> "VARMULTICHAR", lit |-> TRUE, text |-> <<"s", "i", "g", "m", "a">>],
     [m |-> "lit", p |-> <<"U+03C2">>, type |-> "VARMULTICHAR", lit |-> TRUE, text |-> <<"s", "i", "g", "m", "a">>],
     [m |-> "lit", p |-> <<"U+03C4">>, type |-> "VARMULTICHAR", lit |-> TRUE, text |-> <<"t", "a", "u">>],
     [m |-> "lit", p |-> <<"U+03A5">>, type |-> "VARMULTICHAR", lit |-> TRUE, text |-> <<"U", "p", "s", "i", "l", "o", "n">>],
     [m |-> "lit", p |-> <<"U+03C5">>, type |-> "VARMULTICHAR", lit |-> TRUE, text |-> <<"u", "p", "s", "i", "l", "o", "n">>],
     [m |-> "lit", p |-> <<"U+03A6">>, type |-> "VARMULTICHAR", lit |-> TRUE, text |-> <<"P", "h", "i">>],
     [m |-> "lit", p |-> <<"U+03C6">>, type |-> "VARMULTICHAR", lit |-> TRUE, text |-> <<"p", "h", "i">>],
     [m |-> "lit", p |-> <<"U+03D5">>, type |-> "VARMULTICHAR", lit |-> TRUE, text |-> <<"p", "h", "i">>],
     [m |-> "lit", p |-> <<"U+03A8">>, type |-> "VARMULTICHAR", lit |-> TRUE, text |-> <<"P", "s", "i">>],
     [m |-> "lit", p |-> <<"U+03C8">>, type |-> "VARMULTICHAR", lit |-> TRUE, text |-> <<"p", "s", "i">>],
     [m |-> "lit", p |-> <<"U+03A9">>, type |-> "VARMULTICHAR", lit |-> TRUE, text |-> <<"O", "m", "e", "g", "a">>],
     [m |-> "lit", p |-> <<"U+03C9">>, type |-> "VARMULTICHAR", lit |-> TRUE, text |-> <<"o", "m", "e", "g", "a">>],
     [m |-> "word", p |-> <<"o", "o">>, type |-> "INFINITY", lit |-> FALSE, text |-> <<>>],
     [m |-> "word", p |-> <<"O", "O">>, type |-> "INFINITY", lit |-> FALSE, text |-> <<>>],
     [m |-> "word", p |-> <<"i", "n", "f", "t", "y">>, type |-> "INFINITY", lit |-> FALSE, text |-> <<>>],
     [m |-> "word", p |-> <<"i", "n", "f", "i", "n", "i", "t", "y">>, type |-> "INFINITY", lit |-> FALSE, text |-> <<>>],
     [m |-> "word", p |-> <<"I", "n", "f", "i", "n", "i", "t", "y">>, type |-> "INFINITY", lit |-> FALSE, text |-> <<>>],
     [m |-> "lit", p |-> <<"U+221E">>, type |-> "INFINITY", lit |-> FALSE, text |-> <<>>],
     [m |-> "lit", p |-> <<"U+212F">>, type |-> "VAR", lit |-> TRUE, text |-> <<"e">>],
     [m |-> "lit", p |-> <<"U+2660">>, type |-> "VARMULTICHAR", lit |-> TRUE, text |-> <<"s", "p", "a", "d", "e">>],
     [m |-> "lit", p |-> <<"U+2661">>, type |-> "VARMULTICHAR", lit |-> TRUE, text |-> <<"h", "e", "a", "r", "t">>],
     [m |-> "lit", p |-> <<"U+2662">>, type |-> "VARMULTICHAR", lit |-> TRUE, text |-> <<"d", "i", "a", "m", "o", "n", "d">>],
     [m |-> "lit", p |-> <<"U+2663">>, type |-> "VARMULTICHAR", lit |-> TRUE, text |-> <<"c", "l", "u", "b">>],
     [m |-> "lit", p |-> <<"U+2605">>, type |-> "VARMULTICHAR", lit |-> TRUE, text |-> <<"b", "i", "g", "s", "t", "a", "r">>],
     [m |-> "lit", p |-> <<"U+25EF">>, type |-> "VARMULTICHAR", lit |-> TRUE, text |-> <<"b", "i", "g", "c", "i", "r", "c">>],
     [m |-> "lit", p |-> <<"U+25CA">>, type |-> "VARMULTICHAR", lit |-> TRUE, text |-> <<"l", "o", "z", "e", "n", "g", "e">>],
     [m |-> "lit", p |-> <<"U+25B3">>, type |-> "VARMULTICHAR", lit |-> TRUE, text |-> <<"b", "i", "g", "t", "r", "i", "a", "n", "g", "l", "e", "u", "p">>],
     [m |-> "lit", p |-> <<"U+25BD">>, type |-> "VARMULTICHAR", lit |-> TRUE, text |-> <<"b", "i", "g", "t", "r", "i", "a", "n", "g", "l", "e", "d", "o", "w", "n">>],
     [m |-> "lit", p |-> <<"U+29EB">>, type |-> "VARMULTICHAR", lit |-> TRUE, text |-> <<"b", "l", "a", "c", "k", "l", "o", "z", "e", "n", "g", "e">>],
     [m |-> "lit", p |-> <<"U+25A0">>, type |-> "VARMULTICHAR", lit |-> TRUE, text |-> <<"b", "l", "a", "c", "k", "s", "q", "u", "a", "r", "e">>],
     [m |-> "lit", p |-> <<"U+25B2">>, type |-> "VARMULTICHAR", lit |-> TRUE, text |-> <<"b", "l", "a", "c", "k", "t", "r", "i", "a", "n", "g", "l", "e">>],
     [m |-> "lit", p |-> <<"U+25BC">>, type |-> "VARMULTICHAR", lit |-> TRUE, text |-> <<"b", "l", "a", "c", "k", "t", "r", "i", "a", "n", "g", "l", "e", "d", "o", "w", "n">>],
     [m |-> "lit", p |-> <<"U+25C0">>, type |-> "VARMULTICHAR", lit |-> TRUE, text |-> <<"b", "l", "a", "c", "k", "t", "r", "i", "a", "n", "g", "l", "e", "l", "e", "f", "t">>],
     [m |-> "lit", p |-> <<"U+25B6">>, type |-> "VARMULTICHAR", lit |-> TRUE, text |-> <<"b", "l", "a", "c", "k", "t", "r", "i", "a", "n", "g", "l", "e", "r", "i", "g", "h", "t">>],
     [m |-> "lit", p |-> <<"U+25A1">>, type |-> "VARMULTICHAR", lit |-> TRUE, text |-> <<"B", "o", "x">>],
     [m |-> "lit", p |-> <<"U+2218">>, type |-> "VARMULTICHAR", lit |-> TRUE, text |-> <<"c", "i", "r", "c">>],
     [m |-> "lit", p |-> <<"U+22C6">>, type |-> "VARMULTICHAR", lit |-> TRUE, text |-> <<"s", "t", "a", "r">>],
     [m |-> "word", p |-> <<"a", "n", "d">>, type |-> "AND", lit |-> FALSE, text |-> <<>>],
     [m |-> "amp", p |-> <<>>, type |-> "AND", lit |-> FALSE, text |-> <<>>],
     [m |-> "lit", p |-> <<"U+2227">>, type |-> "AND", lit |-> FALSE, text |-> <<>>],
     [m |-> "word", p |-> <<"o", "r">>, type |-> "OR", lit |-> FALSE, text |-> <<>>],
     [m |-> "lit", p |-> <<"U+2228">>, type |-> "OR", lit |-> FALSE, text |-> <<>>],
     [m |-> "word", p |-> <<"n", "o", "t">>, type |-> "NOT", lit |-> FALSE, text |-> <<>>],
     [m |-> "lit", p |-> <<"U+00AC">>, type |-> "NOT", lit |-> FALSE, text |-> <<>>],
     [m |-> "lit", p |-> <<"=">>, type |-> "=", lit |-> FALSE, text |-> <<>>],
     [m |-> "lit", p |-> <<"U+1400">>, type |-> "=", lit |-> FALSE, text |-> <<>>],
     [m |-> "lit", p |-> <<"U+30A0">>, type |-> "=", lit |-> FALSE, text |-> <<>>],
     [m |-> "lit", p |-> <<"!", "=">>, type |-> "NE", lit |-> FALSE, text |-> <<>>],
     [m |-> "lit", p |-> <<"U+2260">>, type |-> "NE", lit |-> FALSE, text |-> <<>>],
     [m |-> "lit", p |-> <<"<", "=">>, type |-> "LE", lit |-> FALSE, text |-> <<>>],
     [m |-> "lit", p |-> <<"U+2264">>, type |-> "LE", lit |-> FALSE, text |-> <<>>],
     [m |-> "lit", p |-> <<">", "=">>, type |-> "GE", lit |-> FALSE, text |-> <<>>],
     [m |-> "lit", p |-> <<"U+2265">>, type |-> "GE", lit |-> FALSE, text |-> <<>>],
     [m |-> "lit", p |-> <<"<">>, type |-> "<", lit |-> FALSE, text |-> <<>>],
     [m |-> "lit", p |-> <<">">>, type |-> ">", lit |-> FALSE, text |-> <<>>],
     [m |-> "word", p |-> <<"e", "l", "e", "m", "e", "n", "t", "o", "f">>, type |-> "IN", lit |-> FALSE, text |-> <<>>],
     [m |-> "lit", p |-> <<"U+2208">>, type |-> "IN", lit |-> FALSE, text |-> <<>>],
     [m |-> "word", p |-> <<"n", "o", "t", "e", "l", "e", "m", "e", "n", "t", "o", "f">>, type |-> "NOTIN", lit |-> FALSE, text |-> <<>>],
     [m |-> "lit", p |-> <<"U+2209">>, type |-> "NOTIN", lit |-> FALSE, text |-> <<>>],
     [m |-> "word", p |-> <<"c", "o", "n", "t", "a", "i", "n", "s", "e", "l", "e", "m", "e", "n", "t">>, type |-> "NI", lit |-> FALSE, text |-> <<>>],
     [m |-> "lit", p |-> <<"U+220B">>, type |-> "NI", lit |-> FALSE, text |-> <<>>],
     [m |-> "word", p |-> <<"n", "o", "t", "c", "o", "n", "t", "a", "i", "n", "s", "e", "l", "e", "m", "e", "n", "t">>, type |-> "NOTNI", lit |-> FALSE, text |-> <<>>],
     [m |-> "lit", p |-> <<"U+220C">>, type |-> "NOTNI", lit |-> FALSE, text |-> <<>>],
     [m |-> "word", p |-> <<"s", "u", "b", "s", "e", "t">>, type |-> "SUBSET", lit |-> FALSE, text |-> <<>>],
     [m |-> "lit", p |-> <<"U+2282">>, type |-> "SUBSET", lit |-> FALSE, text |-> <<>>],
     [m |-> "word", p |-> <<"n", "o", "t", "s", "u", "b", "s", "e", "t">>, type |-> "NOTSUBSET", lit |-> FALSE, text |-> <<>>],
     [m |-> "lit", p |-> <<"U+2284">>, type |-> "NOTSUBSET", lit |-> FALSE, text |-> <<>>],
     [m |-> "word", p |-> <<"s", "u", "p", "e", "r", "s", "e", "t">>, type |-> "SUPERSET", lit |-> FALSE, text |-> <<>>],
     [m |-> "lit", p |-> <<"U+2283">>, type |-> "SUPERSET", lit |-> FALSE, text |-> <<>>],
     [m |-> "word", p |-> <<"n", "o", "t", "s", "u", "p", "e", "r", "s", "e", "t">>, type |-> "NOTSUPERSET", lit |-> FALSE, text |-> <<>>],
     [m |-> "lit", p |-> <<"U+2285">>, type |-> "NOTSUPERSET", lit |-> FALSE, text |-> <<>>],
     [m |-> "word", p |-> <<"u", "n", "i", "o", "n">>, type |-> "UNION", lit |-> FALSE, text |-> <<>>],
     [m |-> "lit", p |-> <<"U+222A">>, type |-> "UNION", lit |-> FALSE, text |-> <<>>],
     [m |-> "word", p |-> <<"i", "n", "t", "e", "r", "s", "e", "c", "t">>, type |-> "INTERSECT", lit |-> FALSE, text |-> <<>>],
     [m |-> "lit", p |-> <<"U+2229">>, type |-> "INTERSECT", lit |-> FALSE, text |-> <<>>],
     [m |-> "lit", p |-> <<"!">>, type |-> "!", lit |-> FALSE, text |-> <<>>],
     [m |-> "lit", p |-> <<"'">>, type |-> "'", lit |-> FALSE, text |-> <<>>],
     [m |-> "lit", p |-> <<"_">>, type |-> "_", lit |-> FALSE, text |-> <<>>],
     [m |-> "deriv", p |-> <<>>, type |-> "DERIVATIVE", lit |-> FALSE, text |-> <<>>],
     [m |-> "derivmult", p |-> <<>>, type |-> "DERIVATIVEMULT", lit |-> FALSE, text |-> <<>>],
     [m |-> "var", p |-> <<>>, type |-> "VAR", lit |-> FALSE, text |-> <<>>]
  >>
(***************************************************************************)
(* src/src/latex-to-ast.js: the lexical table latex_rules.  m names the    *)
(* shape of the pattern as in text_rules; "spaced" is the literal p, \s*,  *)
(* and the literal q, followed by \b when b; "braced" is the command p     *)
(* and a name in braces; "command" and "letter" are the last two rules.    *)
(***************************************************************************)
latex_rules ==
  <<
     [m |-> "num1", p |-> <<>>, q |-> <<>>, b |-> FALSE, type |-> "NUMBER", lit |-> FALSE, text |-> <<>>],
     [m |-> "num2", p |-> <<>>, q |-> <<>>, b |-> FALSE, type |-> "NUMBER", lit |-> FALSE, text |-> <<>>],
     [m |-> "lit", p |-> <<"*">>, q |-> <<>>, b |-> FALSE, type |-> "*", lit |-> FALSE, text |-> <<>>],
     [m |-> "lit", p |-> <<"/">>, q |-> <<>>, b |-> FALSE, type |-> "/", lit |-> FALSE, text |-> <<>>],
     [m |-> "lit", p |-> <<"-">>, q |-> <<>>, b |-> FALSE, type |-> "-", lit |-> FALSE, text |-> <<>>],
     [m |-> "lit", p |-> <<"+">>, q |-> <<>>, b |-> FALSE, type |-> "+", lit |-> FALSE, text |-> <<>>],
     [m |-> "lit", p |-> <<"^">>, q |-> <<>>, b |-> FALSE, type |-> "^", lit |-> FALSE, text |-> <<>>],
     [m |-> "lit", p |-> <<"(">>, q |-> <<>>, b |-> FALSE, type |-> "(", lit |-> FALSE, text |-> <<>>],
     [m |-> "spaced", p |-> <<"\\", "l", "e", "f", "t">>, q |-> <<"(">>, b |-> FALSE, type |-> "(", lit |-> FALSE, text |-> <<>>],
     [m |-> "spaced", p |-> <<"\\", "b", "i", "g", "l">>, q |-> <<"(">>, b |-> FALSE, type |-> "(", lit |-> FALSE, text |-> <<>>],
     [m |-> "spaced", p |-> <<"\\", "B", "i", "g", "l">>, q |-> <<"(">>, b |-> FALSE, type |-> "(", lit |-> FALSE, text |-> <<>>],
     [m |-> "spaced", p |-> <<"\\", "b", "i", "g", "g", "l">>, q |-> <<"(">>, b |-> FALSE, type |-> "(", lit |-> FALSE, text |-> <<>>],
     [m |-> "spaced", p |-> <<"\\", "B", "i", "g", "g", "l">>, q |-> <<"(">>, b |-> FALSE, type |-> "(", lit |-> FALSE, text |-> <<>>],
     [m |-> "lit", p |-> <<")">>, q |-> <<>>, b |-> FALSE, type |-> ")", lit |-> FALSE, text |-> <<>>],
     [m |-> "spaced", p |-> <<"\\", "r", "i", "g", "h", "t">>, q |-> <<")">>, b |-> FALSE, type |-> ")", lit |-> FALSE, text |-> <<>>],
     [m |-> "spaced", p |-> <<"\\", "b", "i", "g", "r">>, q |-> <<")">>, b |-> FALSE, type |-> ")", lit |-> FALSE, text |-> <<>>],
     [m |-> "spaced", p |-> <<"\\", "B", "i", "g", "r">>, q |-> <<")">>, b |-> FALSE, type |-> ")", lit |-> FALSE, text |-> <<>>],
     [m |-> "spaced", p |-> <<"\\", "b", "i", "g", "g", "r">>, q |-> <<")">>, b |-> FALSE, type |-> ")", lit |-> FALSE, text |-> <<>>],
     [m |-> "spaced", p |-> <<"\\", "B", "i", "g", "g", "r">>, q |-> <<")">>, b |-> FALSE, type |-> ")", lit |-> FALSE, text |-> <<>>],
     [m |-> "lit", p |-> <<"[">>, q |-> <<>>, b |-> FALSE, type |-> "[", lit |-> FALSE, text |-> <<>>],
     [m |-> "spaced", p |-> <<"\\", "l", "e", "f", "t">>, q |-> <<"[">>, b |-> FALSE, type |-> "[", lit |-> FALSE, text |-> <<>>],
     [m |-> "spaced", p |-> <<"\\", "b", "i", "g", "l">>, q |-> <<"[">>, b |-> FALSE, type |-> "[", lit |-> FALSE, text |-> <<>>],
     [m |-> "spaced", p |-> <<"\\", "B", "i", "g", "l">>, q |-> <<"[">>, b |-> FALSE, type |-> "[", lit |-> FALSE, text |-> <<>>],
     [m |-> "spaced", p |-> <<"\\", "b", "i", "g", "g", "l">>, q |-> <<"[">>, b |-> FALSE, type |-> "[", lit |-> FALSE, text |-> <<>>],
     [m |-> "spaced", p |-> <<"\\", "B", "i", "g", "g", "l">>, q |-> <<"[">>, b |-> FALSE, type |-> "[", lit |-> FALSE, text |-> <<>>],
     [m |-> "lit", p |-> <<"]">>, q |-> <<>>, b |-> FALSE, type |-> "]", lit |-> FALSE, text |-> <<>>],
     [m |-> "spaced", p |-> <<"\\", "r", "i", "g", "h", "t">>, q |-> <<"]">>, b |-> FALSE, type |-> "]", lit |-> FALSE, text |-> <<>>],
     [m |-> "spaced", p |-> <<"\\", "b", "i", "g", "r">>, q |-> <<"]">>, b |-> FALSE, type |-> "]", lit |-> FALSE, text |-> <<>>],
     [m |-> "spaced", p |-> <<"\\", "B", "i", "g", "r">>, q |-> <<"]">>, b |-> FALSE, type |-> "]", lit |-> FALSE, text |-> <<>>],
     [m |-> "spaced", p |-> <<"\\", "b", "i", "g", "g", "r">>, q |-> <<"]">>, b |-> FALSE, type |-> "]", lit |-> FALSE, text |-> <<>>],
     [m |-> "spaced", p |-> <<"\\", "B", "i", "g", "g", "r">>, q |-> <<"]">>, b |-> FALSE, type |-> "]", lit |-> FALSE, text |-> <<>>],
     [m |-> "lit", p |-> <<"|">>, q |-> <<>>, b |-> FALSE, type |-> "|", lit |-> FALSE, text |-> <<>>],
     [m |-> "spaced", p |-> <<"\\", "l", "e", "f", "t">>, q |-> <<"|">>, b |-> FALSE, type |-> "|", lit |-> FALSE, text |-> <<>>],
     [m |-> "spaced", p |-> <<"\\", "b", "i", "g", "l">>, q |-> <<"|">>, b |-> FALSE, type |-> "|", lit |-> FALSE, text |-> <<>>],
     [m |-> "spaced", p |-> <<"\\", "B", "i", "g", "l">>, q |-> <<"|">>, b |-> FALSE, type |-> "|", lit |-> FALSE, text |-> <<>>],
     [m |-> "spaced", p |-> <<"\\", "b", "i", "g", "g", "l">>, q |-> <<"|">>, b |-> FALSE, type |-> "|", lit |-> FALSE, text |-> <<>>],
     [m |-> "spaced", p |-> <<"\\", "B", "i", "g", "g", "l">>, q |-> <<"|">>, b |-> FALSE, type |-> "|", lit |-> FALSE, text |-> <<>>],
     [m |-> "spaced", p |-> <<"\\", "r", "i", "g", "h", "t">>, q |-> <<"|">>, b |-> FALSE, type |-> "|", lit |-> FALSE, text |-> <<>>],
     [m |-> "spaced", p |-> <<"\\", "b", "i", "g", "r">>, q |-> <<"|">>, b |-> FALSE, type |-> "|", lit |-> FALSE, text |-> <<>>],
     [m |-> "spaced", p |-> <<"\\", "B", "i", "g", "r">>, q |-> <<"|">>, b |-> FALSE, type |-> "|", lit |-> FALSE, text |-> <<>>],
     [m |-> "spaced", p |-> <<"\\", "b", "i", "g", "g", "r">>, q |-> <<"|">>, b |-> FALSE, type |-> "|", lit |-> FALSE, text |-> <<>>],
     [m |-> "spaced", p |-> <<"\\", "B", "i", "g", "g", "r">>, q |-> <<"|">>, b |-> FALSE, type |-> "|", lit |-> FALSE, text |-> <<>>],
     [m |-> "spaced", p |-> <<"\\", "b", "i", "g">>, q |-> <<"|">>, b |-> FALSE, type |-> "|", lit |-> FALSE, text |-> <<>>],
     [m |-> "spaced", p |-> <<"\\", "B", "i", "g">>, q |-> <<"|">>, b |-> FALSE, type |-> "|", lit |-> FALSE, text |-> <<>>],
     [m |-> "spaced", p |-> <<"\\", "b", "i", "g", "g">>, q |-> <<"|">>, b |-> FALSE, type |-> "|", lit |-> FALSE, text |-> <<>>],
     [m |-> "spaced", p |-> <<"\\", "B", "i", "g", "g">>, q |-> <<"|">>, b |-> FALSE, type |-> "|", lit |-> FALSE, text |-> <<>>],
     [m |-> "lit", p |-> <<"{">>, q |-> <<>>, b |-> FALSE, type |-> "{", lit |-> FALSE, text |-> <<>>],
     [m |-> "lit", p |-> <<"}">>, q |-> <<>>, b |-> FALSE, type |-> "}", lit |-> FALSE, text |-> <<>>],
     [m |-> "lit", p |-> <<"\\", "{">>, q |-> <<>>, b |-> FALSE, type |-> "LBRACE", lit |-> FALSE, text |-> <<>>],
     [m |-> "spaced", p |-> <<"\\", "l", "e", "f", "t">>, q |-> <<"\\", "{">>, b |-> FALSE, type |-> "LBRACE", lit |-> FALSE, text |-> <<>>],
     [m |-> "spaced", p |-> <<"\\", "b", "i", "g", "l">>, q |-> <<"\\", "{">>, b |-> FALSE, type |-> "LBRACE", lit |-> FALSE, text |-> <<>>],
     [m |-> "spaced", p |-> <<"\\", "B", "i", "g", "l">>, q |-> <<"\\", "{">>, b |-> FALSE, type |-> "LBRACE", lit |-> FALSE, text |-> <<>>],
     [m |-> "spaced", p |-> <<"\\", "b", "i", "g", "g", "l">>, q |-> <<"\\", "{">>, b |-> FALSE, type |-> "LBRACE", lit |-> FALSE, text |-> <<>>],
     [m |-> "spaced", p |-> <<"\\", "B", "i", "g", "g", "l">>, q |-> <<"\\", "{">>, b |-> FALSE, type |-> "LBRACE", lit |-> FALSE, text |-> <<>>],
     [m |-> "lit", p |-> <<"\\", "}">>, q |-> <<>>, b |-> FALSE, type |-> "RBRACE", lit |-> FALSE, text |-> <<>>],
     [m |-> "spaced", p |-> <<"\\", "r", "i", "g", "h", "t">>, q |-> <<"\\", "}">>, b |-> FALSE, type |-> "RBRACE", lit |-> FALSE, text |-> <<>>],
     [m |-> "spaced", p |-> <<"\\", "b", "i", "g", "r">>, q |-> <<"\\", "}">>, b |-> FALSE, type |-> "RBRACE", lit |-> FALSE, text |-> <<>>],
     [m |-> "spaced", p |-> <<"\\", "B", "i", "g", "r">>, q |-> <<"\\", "}">>, b |-> FALSE, type |-> "RBRACE", lit |-> FALSE, text |-> <<>>],
     [m |-> "spaced", p |-> <<"\\", "b", "i", "g", "g", "r">>, q |-> <<"\\", "}">>, b |-> FALSE, type |-> "RBRACE", lit |-> FALSE, text |-> <<>>],
     [m |-> "spaced", p |-> <<"\\", "B", "i", "g", "g", "r">>, q |-> <<"\\", "}">>, b |-> FALSE, type |-> "RBRACE", lit |-> FALSE, text |-> <<>>],
     [m |-> "word", p |-> <<"\\", "c", "d", "o", "t">>, q |-> <<>>, b |-> TRUE, type |-> "*", lit |-> FALSE, text |-> <<>>],
     [m |-> "word", p |-> <<"\\", "t", "i", "m", "e", "s">>, q |-> <<>>, b |-> TRUE, type |-> "*", lit |-> FALSE, text |-> <<>>],
     [m |-> "word", p |-> <<"\\", "f", "r", "a", "c">>, q |-> <<>>, b |-> TRUE, type |-> "FRAC", lit |-> FALSE, text |-> <<>>],
     [m |-> "lit", p |-> <<",">>, q |-> <<>>, b |-> FALSE, type |-> ",", lit |-> FALSE, text |-> <<>>],
     [m |-> "word", p |-> <<"\\", "v", "a", "r", "t", "h", "e", "t", "a">>, q |-> <<>>, b |-> TRUE, type |-> "LATEXCOMMAND", lit |-> TRUE, text |-> <<"\\", "t", "h", "e", "t", "a">>],
     [m |-> "word", p |-> <<"\\", "v", "a", "r", "e", "p", "s", "i", "l", "o", "n">>, q |-> <<>>, b |-> TRUE, type |-> "LATEXCOMMAND", lit |-> TRUE, text |-> <<"\\", "e", "p", "s", "i", "l", "o", "n">>],
     [m |-> "word", p |-> <<"\\", "v", "a", "r", "r", "h", "o">>, q |-> <<>>, b |-> TRUE, type |-> "LATEXCOMMAND", lit |-> TRUE, text |-> <<"\\", "r", "h", "o">>],
     [m |-> "word", p |-> <<"\\", "v", "a", "r", "p", "h", "i">>, q |-> <<>>, b |-> TRUE, type |-> "LATEXCOMMAND", lit |-> TRUE, text |-> <<"\\", "p", "h", "i">>],
     [m |-> "word", p |-> <<"\\", "i", "n", "f", "t", "y">>, q |-> <<>>, b |-> TRUE, type |-> "INFINITY", lit |-> FALSE, text |-> <<>>],
     [m |-> "word", p |-> <<"\\", "a", "s", "i", "n">>, q |-> <<>>, b |-> TRUE, type |-> "LATEXCOMMAND", lit |-> TRUE, text |-> <<"\\", "a", "r", "c", "s", "i", "n">>],
     [m |-> "word", p |-> <<"\\", "a", "c", "o", "s">>, q |-> <<>>, b |-> TRUE, type |-> "LATEXCOMMAND", lit |-> TRUE, text |-> <<"\\", "a", "r", "c", "c", "o", "s">>],
     [m |-> "word", p |-> <<"\\", "a", "t", "a", "n">>, q |-> <<>>, b |-> TRUE, type |-> "LATEXCOMMAND", lit |-> TRUE, text |-> <<"\\", "a", "r", "c", "t", "a", "n">>],
     [m |-> "word", p |-> <<"\\", "s", "q", "r", "t">>, q |-> <<>>, b |-> TRUE, type |-> "SQRT", lit |-> FALSE, text |-> <<>>],
     [m |-> "word", p |-> <<"\\", "l", "a", "n", "d">>, q |-> <<>>, b |-> TRUE, type |-> "AND", lit |-> FALSE, text |-> <<>>],
     [m |-> "word", p |-> <<"\\", "w", "e", "d", "g", "e">>, q |-> <<>>, b |-> TRUE, type |-> "AND", lit |-> FALSE, text |-> <<>>],
     [m |-> "word", p |-> <<"\\", "l", "o", "r">>, q |-> <<>>, b |-> TRUE, type |-> "OR", lit |-> FALSE, text |-> <<>>],
     [m |-> "word", p |-> <<"\\", "v", "e", "e">>, q |-> <<>>, b |-> TRUE, type |-> "OR", lit |-> FALSE, text |-> <<>>],
     [m |-> "word", p |-> <<"\\", "l", "n", "o", "t">>, q |-> <<>>, b |-> TRUE, type |-> "NOT", lit |-> FALSE, text |-> <<>>],
     [m |-> "lit", p |-> <<"=">>, q |-> <<>>, b |-> FALSE, type |-> "=", lit |-> FALSE, text |-> <<>>],
     [m |-> "word", p |-> <<"\\", "n", "e", "q">>, q |-> <<>>, b |-> TRUE, type |-> "NE", lit |-> FALSE, text |-> <<>>],
     [m |-> "word", p |-> <<"\\", "n", "e">>, q |-> <<>>, b |-> TRUE, type |-> "NE", lit |-> FALSE, text |-> <<>>],
     [m |-> "spaced", p |-> <<"\\", "n", "o", "t">>, q |-> <<"=">>, b |-> FALSE, type |-> "NE", lit |-> FALSE, text |-> <<>>],
     [m |-> "word", p |-> <<"\\", "l", "e", "q">>, q |-> <<>>, b |-> TRUE, type |-> "LE", lit |-> FALSE, text |-> <<>>],
     [m |-> "word", p |-> <<"\\", "l", "e">>, q |-> <<>>, b |-> TRUE, type |-> "LE", lit |-> FALSE, text |-> <<>>],
     [m |-> "word", p |-> <<"\\", "g", "e", "q">>, q |-> <<>>, b |-> TRUE, type |-> "GE", lit |-> FALSE, text |-> <<>>],
     [m |-> "word", p |-> <<"\\", "g", "e">>, q |-> <<>>, b |-> TRUE, type |-> "GE", lit |-> FALSE, text |-> <<>>],
     [m |-> "lit", p |-> <<"<">>, q |-> <<>>, b |-> FALSE, type |-> "<", lit |-> FALSE, text |-> <<>>],
     [m |-> "word", p |-> <<"\\", "l", "t">>, q |-> <<>>, b |-> TRUE, type |-> "<", lit |-> FALSE, text |-> <<>>],
     [m |-> "lit", p |-> <<">">>, q |-> <<>>, b |-> FALSE, type |-> ">", lit |-> FALSE, text |-> <<>>],
     [m |-> "word", p |-> <<"\\", "g", "t">>, q |-> <<>>, b |-> TRUE, type |-> ">", lit |-> FALSE, text |-> <<>>],
     [m |-> "word", p |-> <<"\\", "i", "n">>, q |-> <<>>, b |-> TRUE, type |-> "IN", lit |-> FALSE, text |-> <<>>],
     [m |-> "word", p |-> <<"\\", "n", "o", "t", "i", "n">>, q |-> <<>>, b |-> TRUE, type |-> "NOTIN", lit |-> FALSE, text |-> <<>>],
     [m |-> "spaced", p |-> <<"\\", "n", "o", "t">>, q |-> <<"\\", "i", "n">>, b |-> TRUE, type |-> "NOTIN", lit |-> FALSE, text |-> <<>>],
     [m |-> "word", p |-> <<"\\", "n", "i">>, q |-> <<>>, b |-> TRUE, type |-> "NI", lit |-> FALSE, text |-> <<>>],
     [m |-> "spaced", p |-> <<"\\", "n", "o", "t">>, q |-> <<"\\", "n", "i">>, b |-> TRUE, type |-> "NOTNI", lit |-> FALSE, text |-> <<>>],
     [m |-> "word", p |-> <<"\\", "s", "u", "b", "s", "e", "t">>, q |-> <<>>, b |-> TRUE, type |-> "SUBSET", lit |-> FALSE, text |-> <<>>],
     [m |-> "spaced", p |-> <<"\\", "n", "o", "t">>, q |-> <<"\\", "s", "u", "b", "s", "e", "t">>, b |-> TRUE, type |-> "NOTSUBSET", lit |-> FALSE, text |-> <<>>],
     [m |-> "word", p |-> <<"\\", "s", "u", "p", "s", "e", "t">>, q |-> <<>>, b |-> TRUE, type |-> "SUPERSET", lit |-> FALSE, text |-> <<>>],
     [m |-> "spaced", p |-> <<"\\", "n", "o", "t">>, q |-> <<"\\", "s", "u", "p", "s", "e", "t">>, b |-> TRUE, type |-> "NOTSUPERSET", lit |-> FALSE, text |-> <<>>],
     [m |-> "word", p |-> <<"\\", "c", "u", "p">>, q |-> <<>>, b |-> TRUE, type |-> "UNION", lit |-> FALSE, text |-> <<>>],
     [m |-> "word", p |-> <<"\\", "c", "a", "p">>, q |-> <<>>, b |-> TRUE, type |-> "INTERSECT", lit |-> FALSE, text |-> <<>>],
     [m |-> "lit", p |-> <<"!">>, q |-> <<>>, b |-> FALSE, type |-> "!", lit |-> FALSE, text |-> <<>>],
     [m |-> "lit", p |-> <<"'">>, q |-> <<>>, b |-> FALSE, type |-> "'", lit |-> FALSE, text |-> <<>>],
     [m |-> "lit", p |-> <<"_">>, q |-> <<>>, b |-> FALSE, type |-> "_", lit |-> FALSE, text |-> <<>>],
     [m |-> "lit", p |-> <<"&">>, q |-> <<>>, b |-> FALSE, type |-> "&", lit |-> FALSE, text |-> <<>>],
     [m |-> "lit", p |-> <<"\\", "\\">>, q |-> <<>>, b |-> FALSE, type |-> "LINEBREAK", lit |-> FALSE, text |-> <<>>],
     [m |-> "braced", p |-> <<"\\", "b", "e", "g", "i", "n">>, q |-> <<>>, b |-> FALSE, type |-> "BEGINENVIRONMENT", lit |-> FALSE, text |-> <<>>],
     [m |-> "braced", p |-> <<"\\", "e", "n", "d">>, q |-> <<>>, b |-> FALSE, type |-> "ENDENVIRONMENT", lit |-> FALSE, text |-> <<>>],
     [m |-> "braced", p |-> <<"\\", "v", "a", "r">>, q |-> <<>>, b |-> FALSE, type |-> "VARMULTICHAR", lit |-> FALSE, text |-> <<>>],
     [m |-> "command", p |-> <<>>, q |-> <<>>, b |-> FALSE, type |-> "LATEXCOMMAND", lit |-> FALSE, text |-> <<>>],
     [m |-> "letter", p |-> <<>>, q |-> <<>>, b |-> FALSE, type |-> "VAR", lit |-> FALSE, text |-> <<>>]
  >>


\* (E[+\-]?[0-9]+)? at position k: the number of characters it takes
ExponentLen(str, k) ==
  IF k <= Len(str) /\ str[k] = "E"
  THEN LET sgn == IF k + 1 <= Len(str) /\ str[k + 1] \in {"+", "-"} THEN 1 ELSE 0
           nd  == CountIn(Digits, str, k + 1 + sgn)
       IN IF nd > 0 THEN 1 + sgn + nd ELSE 0
  ELSE 0

\* [0-9]+(\.[0-9]+)?(E[+\-]?[0-9]+)?
MatchNum1(str) ==
  LET n1 == CountIn(Digits, str, 1)
      nf == IF n1 + 1 <= Len(str) /\ str[n1 + 1] = "."
            THEN CountIn(Digits, str, n1 + 2) ELSE 0
      fr == IF nf > 0 THEN 1 + nf ELSE 0
  IN IF n1 = 0 THEN 0 ELSE n1 + fr + ExponentLen(str, n1 + fr + 1)

\* \.[0-9]+(E[+\-]?[0-9]+)?
MatchNum2(str) ==
  LET nf == IF Len(str) >= 1 /\ str[1] = "." THEN CountIn(Digits, str, 2) ELSE 0
  IN IF nf = 0 THEN 0 ELSE 1 + nf + ExponentLen(str, nf + 2)

\* \&\&?
MatchAmp(str) ==
  IF Len(str) >= 1 /\ str[1] = "&"
  THEN (IF Len(str) >= 2 /\ str[2] = "&" THEN 2 ELSE 1)
  ELSE 0

\* d[a-zA-Z]\s*\/\s*d[a-zA-Z]\b
MatchDeriv(str) ==
  IF Len(str) >= 2 /\ str[1] = "d" /\ str[2] \in Letters
  THEN LET w1 == CountIn(Whitespace, str, 3)
           sl == 3 + w1
           w2 == CountIn(Whitespace, str, sl + 1)
           d2 == sl + 1 + w2
       IN IF /\ sl <= Len(str) /\ str[sl] = "/"
             /\ d2 + 1 <= Len(str) /\ str[d2] = "d" /\ str[d2 + 1] \in Letters
             /\ BoundaryAfter(str, d2 + 1)
          THEN d2 + 1 ELSE 0
  ELSE 0

\* d\^([0-9])[a-zA-Z]\s*\/\s*d[a-zA-Z]\^\1\b
MatchDerivMult(str) ==
  IF /\ Len(str) >= 4 /\ str[1] = "d" /\ str[2] = "^"
     /\ str[3] \in Digits /\ str[4] \in Letters
  THEN LET w1 == CountIn(Whitespace, str, 5)
           sl == 5 + w1
           w2 == CountIn(Whitespace, str, sl + 1)
           d2 == sl + 1 + w2
       IN IF /\ sl <= Len(str) /\ str[sl] = "/"
             /\ d2 + 3 <= Len(str) /\ str[d2] = "d" /\ str[d2 + 1] \in Letters
             /\ str[d2 + 2] = "^" /\ str[d2 + 3] = str[3]
             /\ BoundaryAfter(str, d2 + 3)
          THEN d2 + 3 ELSE 0
  ELSE 0

\* [a-zA-Z][a-zA-Z0-9]*
MatchVar(str) ==
  IF Len(str) >= 1 /\ str[1] \in Letters
  THEN 1 + CountIn(Letters \cup Digits, str, 2)
  ELSE 0

\* p\s*q and p\s*q\b : a command, blanks, and what the command acts on
MatchSpaced(rule, str) ==
  IF IsPrefix(rule.p, str)
  THEN LET w == CountIn(Whitespace, str, Len(rule.p) + 1)
           k == Len(rule.p) + w + Len(rule.q)
       IN IF /\ IsPrefix(rule.q, Drop(Len(rule.p) + w + 1, str))
             /\ (rule.b => BoundaryAfter(str, k))
          THEN k ELSE 0
  ELSE 0

\* p\s*\{\s*[a-zA-Z0-9]+\s*\} : a command and a name in braces
MatchBraced(rule, str) ==
  IF IsPrefix(rule.p, str)
  THEN LET open == Len(rule.p) + CountIn(Whitespace, str, Len(rule.p) + 1) + 1
           name == open + CountIn(Whitespace, str, open + 1) + 1
           n == CountIn(Letters \cup Digits, str, name)
           close == name + n + CountIn(Whitespace, str, name + n)
       IN IF /\ open <= Len(str) /\ str[open] = "{"
             /\ n > 0
             /\ close <= Len(str) /\ str[close] = "}"
          THEN close ELSE 0
  ELSE 0

\* \\[a-zA-Z][a-zA-Z0-9]*
MatchCommand(str) ==
  IF Len(str) >= 2 /\ str[1] = "\\" /\ str[2] \in Letters
  THEN 2 + CountIn(Letters \cup Digits, str, 3)
  ELSE 0

\* [a-zA-Z]
MatchLetter(str) == IF Len(str) >= 1 /\ str[1] \in Letters THEN 1 ELSE 0

\* rule[0].exec(this.input): the length of the match of the anchored
\* pattern at the head of str, 0 when it does not match (no pattern of the
\* two tables matches the empty string)
MatchLen(rule, str) ==
  CASE rule.m = "lit"       -> IF IsPrefix(rule.p, str) THEN Len(rule.p) ELSE 0
    [] rule.m = "word"      -> IF IsPrefix(rule.p, str) /\ BoundaryAfter(str, Len(rule.p))
                               THEN Len(rule.p) ELSE 0
    [] rule.m = "num1"      -> MatchNum1(str)
    [] rule.m = "num2"      -> MatchNum2(str)
    [] rule.m = "amp"       -> MatchAmp(str)
    [] rule.m = "deriv"     -> MatchDeriv(str)
    [] rule.m = "derivmult" -> MatchDerivMult(str)
    [] rule.m = "var"       -> MatchVar(str)
    [] rule.m = "spaced"    -> MatchSpaced(rule, str)
    [] rule.m = "braced"    -> MatchBraced(rule, str)
    [] rule.m = "command"   -> MatchCommand(str)
    [] rule.m = "letter"    -> MatchLetter(str)

\* the index of the last rule that matches (mutation of FirstMatch)
LastMatch(rules, str, i) ==
  LET matching == {j \in i..Len(rules) : MatchLen(rules[j], str) > 0}
  IN IF matching = {} THEN 0
     ELSE CHOOSE j \in matching : \A l \in matching : j >= l

\* for(var rule of this.token_rules): index of the first rule that matches
\* from rule i on, 0 when none does
FirstMatch(rules, str, i) ==
  LET matching == {j \in i..Len(rules) : MatchLen(rules[j], str) > 0}
  IN IF matching = {} THEN 0
     ELSE CHOOSE j \in matching : \A l \in matching : j <= l

\* token[1] of a token that has no second element
Undefined == <<"u", "n", "d", "e", "f", "i", "n", "e", "d">>

Token(type, text) == [type |-> type, text |-> text]

\* lexer.set_input
set_input(str) == [input |-> str, location |-> 0]

\* lexer.advance, from  // search through each token rule in order  on: inp
\* and loc are the input and location left by the removal of the whitespace
find_token(rules, inp, loc) ==
  Let(FirstMatch(rules, inp, 1), LAMBDA i :
    IF i = 0
    THEN [input |-> inp, location |-> loc, token |-> Token("INVALID", Undefined)]
    ELSE Let(MatchLen(rules[i], inp), LAMBDA n_characters :
           [input |-> Drop(n_characters + 1, inp),
            location |-> loc + n_characters,
            token |-> IF rules[i].lit
                      THEN Token(rules[i].type, rules[i].text)
                      ELSE Token(rules[i].type, SubSeq(inp, 1, n_characters))]))

\* lexer.advance: the new lexer fields and the token returned
lexer_advance(rules, lx) ==
  Let(CountIn(Whitespace, lx.input, 1), LAMBDA n_whitespace :
    IF n_whitespace = Len(lx.input)
    THEN [input |-> <<>>, location |-> lx.location + n_whitespace,
          token |-> Token("EOF", Undefined)]
    ELSE find_token(rules, Drop(n_whitespace + 1, lx.input), lx.location + n_whitespace))

\* an unput that leaves the location where it is (mutation of unput)
unput_keeps_location(lx, str) ==
  [input |-> str \o lx.input, location |-> lx.location]

\* lexer.unput
unput(lx, str) ==
  [input |-> str \o lx.input, location |-> lx.location - Len(str)]

(***************************************************************************)
(* Trees.  A JS value of the AST is a string, a number, a boolean, the     *)
(* value false that baseFactor returns for "no factor", or an array whose  *)
(* element 0 is the operator, a string.  Numbers are decimal numbers       *)
(* <<m, e>> = m * 10^e, m without trailing zeros.                          *)
(***************************************************************************)
Str(name)  == [k |-> "string", str |-> name, num |-> <<0, 0>>, bool |-> FALSE, elems |-> <<>>]
Num(n)     == [k |-> "number", str |-> <<>>, num |-> n, bool |-> FALSE, elems |-> <<>>]
Bool(b)    == [k |-> "boolean", str |-> <<>>, num |-> <<0, 0>>, bool |-> b, elems |-> <<>>]
Arr(elems) == [k |-> "array", str |-> <<>>, num |-> <<0, 0>>, bool |-> FALSE, elems |-> elems]
False      == [k |-> "false", str |-> <<>>, num |-> <<0, 0>>, bool |-> FALSE, elems |-> <<>>]

\* the array [operator, ...operands]
Node(operator, operands) == Arr(<<Str(operator)>> \o operands)

IsArray(tree) == tree.k = "array"

\* tree[0] == operator, which no string, number or boolean satisfies for
\* the operators of the AST (all of them longer than one character or not
\* a letter of a symbol)
HasOperator(tree, operator) ==
  IsArray(tree) /\ Len(tree.elems) >= 1 /\ tree.elems[1] = Str(operator)

\* tree.slice(1)
Operands(tree) == Drop(2, tree.elems)

\* the string literals of the source that have more than one character
S ==
  [list |-> <<"l", "i", "s", "t">>,
   tuple |-> <<"t", "u", "p", "l", "e">>,
   array |-> <<"a", "r", "r", "a", "y">>,
   set |-> <<"s", "e", "t">>,
   vector |-> <<"v", "e", "c", "t", "o", "r">>,
   interval |-> <<"i", "n", "t", "e", "r", "v", "a", "l">>,
   matrix |-> <<"m", "a", "t", "r", "i", "x">>,
   apply |-> <<"a", "p", "p", "l", "y">>,
   abs |-> <<"a", "b", "s">>,
   factorial |-> <<"f", "a", "c", "t", "o", "r", "i", "a", "l">>,
   prime |-> <<"p", "r", "i", "m", "e">>,
   infinity |-> <<"i", "n", "f", "i", "n", "i", "t", "y">>,
   lts |-> <<"l", "t", "s">>,
   gts |-> <<"g", "t", "s">>,
   and |-> <<"a", "n", "d">>,
   or |-> <<"o", "r">>,
   not |-> <<"n", "o", "t">>,
   ne |-> <<"n", "e">>,
   le |-> <<"l", "e">>,
   ge |-> <<"g", "e">>,
   in |-> <<"i", "n">>,
   notin |-> <<"n", "o", "t", "i", "n">>,
   ni |-> <<"n", "i">>,
   notni |-> <<"n", "o", "t", "n", "i">>,
   subset |-> <<"s", "u", "b", "s", "e", "t">>,
   notsubset |-> <<"n", "o", "t", "s", "u", "b", "s", "e", "t">>,
   superset |-> <<"s", "u", "p", "e", "r", "s", "e", "t">>,
   notsuperset |-> <<"n", "o", "t", "s", "u", "p", "e", "r", "s", "e", "t">>,
   union |-> <<"u", "n", "i", "o", "n">>,
   intersect |-> <<"i", "n", "t", "e", "r", "s", "e", "c", "t">>,
   derivative_leibniz |-> <<"d", "e", "r", "i", "v", "a", "t", "i", "v", "e", "_",
                            "l", "e", "i", "b", "n", "i", "z">>,
   derivative_leibniz_mult |-> <<"d", "e", "r", "i", "v", "a", "t", "i", "v", "e", "_",
                                 "l", "e", "i", "b", "n", "i", "z", "_", "m", "u", "l", "t">>]

\* String.prototype.toLowerCase, on one character
LowerChar(c) ==
  CASE c = "A" -> "a" [] c = "B" -> "b" [] c = "C" -> "c" [] c = "D" -> "d"
    [] c = "E" -> "e" [] c = "F" -> "f" [] c = "G" -> "g" [] c = "H" -> "h"
    [] c = "I" -> "i" [] c = "J" -> "j" [] c = "K" -> "k" [] c = "L" -> "l"
    [] c = "M" -> "m" [] c = "N" -> "n" [] c = "O" -> "o" [] c = "P" -> "p"
    [] c = "Q" -> "q" [] c = "R" -> "r" [] c = "S" -> "s" [] c = "T" -> "t"
    [] c = "U" -> "u" [] c = "V" -> "v" [] c = "W" -> "w" [] c = "X" -> "x"
    [] c = "Y" -> "y" [] c = "Z" -> "z" [] OTHER -> c

toLowerCase(str) == [i \in 1..Len(str) |-> LowerChar(str[i])]
symbolConversions ==
  <<
     <<<<"i", "n", "f", "i", "n", "i", "t", "y">>, <<"U+221E">>>>,
     <<<<"a", "l", "p", "h", "a">>, <<"U+03B1">>>>,
     <<<<"b", "e", "t", "a">>, <<"U+03B2">>>>,
     <<<<"G", "a", "m", "m", "a">>, <<"U+0393">>>>,
     <<<<"g", "a", "m", "m", "a">>, <<"U+03B3">>>>,
     <<<<"D", "e", "l", "t", "a">>, <<"U+0394">>>>,
     <<<<"d", "e", "l", "t", "a">>, <<"U+03B4">>>>,
     <<<<"e", "p", "s", "i", "l", "o", "n">>, <<"U+03B5">>>>,
     <<<<"z", "e", "t", "a">>, <<"U+03B6">>>>,
     <<<<"e", "t", "a">>, <<"U+03B7">>>>,
     <<<<"T", "h", "e", "t", "a">>, <<"U+03F4">>>>,
     <<<<"t", "h", "e", "t", "a">>, <<"U+03B8">>>>,
     <<<<"i", "o", "t", "a">>, <<"U+03B9">>>>,
     <<<<"k", "a", "p", "p", "a">>, <<"U+03BA">>>>,
     <<<<"L", "a", "m", "b", "d", "a">>, <<"U+039B">>>>,
     <<<<"l", "a", "m", "b", "d", "a">>, <<"U+03BB">>>>,
     <<<<"m", "u">>, <<"U+03BC">>>>,
     <<<<"n", "u">>, <<"U+03BD">>>>,
     <<<<"X", "i">>, <<"U+039E">>>>,
     <<<<"x", "i">>, <<"U+03BE">>>>,
     <<<<"P", "i">>, <<"U+03A0">>>>,
     <<<<"p", "i">>, <<"U+03C0">>>>,
     <<<<"r", "h", "o">>, <<"U+03C1">>>>,
     <<<<"S", "i", "g", "m", "a">>, <<"U+03A3">>>>,
     <<<<"s", "i", "g", "m", "a">>, <<"U+03C3">>>>,
     <<<<"t", "a", "u">>, <<"U+03C4">>>>,
     <<<<"U", "p", "s", "i", "l", "o", "n">>, <<"U+03A5">>>>,
     <<<<"u", "p", "s", "i", "l", "o", "n">>, <<"U+03C5">>>>,
     <<<<"P", "h", "i">>, <<"U+03A6">>>>,
     <<<<"p", "h", "i">>, <<"U+03D5">>>>,
     <<<<"P", "s", "i">>, <<"U+03A8">>>>,
     <<<<"p", "s", "i">>, <<"U+03C8">>>>,
     <<<<"O", "m", "e", "g", "a">>, <<"U+03A9">>>>,
     <<<<"o", "m", "e", "g", "a">>, <<"U+03C9">>>>
  >>

unsplitSymbolsDefault ==
  << <<"p", "i">>, <<"t", "h", "e", "t", "a">>, <<"T", "h", "e", "t", "a">>,
     <<"a", "l", "p", "h", "a">>, <<"n", "u">>, <<"b", "e", "t", "a">>,
     <<"x", "i">>, <<"X", "i">>, <<"g", "a", "m", "m", "a">>,
     <<"G", "a", "m", "m", "a">>, <<"d", "e", "l", "t", "a">>, <<"D", "e", "l", "t", "a">>,
     <<"p", "i">>, <<"P", "i">>, <<"e", "p", "s", "i", "l", "o", "n">>,
     <<"e", "p", "s", "i", "l", "o", "n">>, <<"r", "h", "o">>, <<"r", "h", "o">>,
     <<"z", "e", "t", "a">>, <<"s", "i", "g", "m", "a">>, <<"S", "i", "g", "m", "a">>,
     <<"e", "t", "a">>, <<"t", "a", "u">>, <<"u", "p", "s", "i", "l", "o", "n">>,
     <<"U", "p", "s", "i", "l", "o", "n">>, <<"i", "o", "t", "a">>, <<"p", "h", "i">>,
     <<"p", "h", "i">>, <<"P", "h", "i">>, <<"k", "a", "p", "p", "a">>,
     <<"c", "h", "i">>, <<"l", "a", "m", "b", "d", "a">>, <<"L", "a", "m", "b", "d", "a">>,
     <<"p", "s", "i">>, <<"P", "s", "i">>, <<"o", "m", "e", "g", "a">>,
     <<"O", "m", "e", "g", "a">> >>

appliedFunctionSymbolsDefault ==
  << <<"a", "b", "s">>, <<"e", "x", "p">>, <<"l", "o", "g">>,
     <<"l", "n">>, <<"l", "o", "g", "1", "0">>, <<"s", "i", "g", "n">>,
     <<"s", "q", "r", "t">>, <<"e", "r", "f">>, <<"a", "c", "o", "s">>,
     <<"a", "c", "o", "s", "h">>, <<"a", "c", "o", "t">>, <<"a", "c", "o", "t", "h">>,
     <<"a", "c", "s", "c">>, <<"a", "c", "s", "c", "h">>, <<"a", "s", "e", "c">>,
     <<"a", "s", "e", "c", "h">>, <<"a", "s", "i", "n">>, <<"a", "s", "i", "n", "h">>,
     <<"a", "t", "a", "n">>, <<"a", "t", "a", "n", "h">>, <<"c", "o", "s">>,
     <<"c", "o", "s", "h">>, <<"c", "o", "t">>, <<"c", "o", "t", "h">>,
     <<"c", "s", "c">>, <<"c", "s", "c", "h">>, <<"s", "e", "c">>,
     <<"s", "e", "c", "h">>, <<"s", "i", "n">>, <<"s", "i", "n", "h">>,
     <<"t", "a", "n">>, <<"t", "a", "n", "h">>, <<"a", "r", "c", "s", "i", "n">>,
     <<"a", "r", "c", "c", "o", "s">>, <<"a", "r", "c", "t", "a", "n">>, <<"a", "r", "c", "c", "s", "c">>,
     <<"a", "r", "c", "s", "e", "c">>, <<"a", "r", "c", "c", "o", "t">>, <<"c", "o", "s", "e", "c">>,
     <<"a", "r", "g">> >>

functionSymbolsDefault ==
  << <<"f">>, <<"g">> >>
\* src/src/latex-to-ast.js: allowedLatexSymbolsDefault
allowedLatexSymbolsDefault ==
  <<
    <<"p", "i">>, <<"t", "h", "e", "t", "a">>, <<"t", "h", "e", "t", "a">>,
    <<"T", "h", "e", "t", "a">>, <<"a", "l", "p", "h", "a">>, <<"n", "u">>,
    <<"b", "e", "t", "a">>, <<"x", "i">>, <<"X", "i">>,
    <<"g", "a", "m", "m", "a">>, <<"G", "a", "m", "m", "a">>,
    <<"d", "e", "l", "t", "a">>, <<"D", "e", "l", "t", "a">>, <<"p", "i">>,
    <<"P", "i">>, <<"e", "p", "s", "i", "l", "o", "n">>,
    <<"e", "p", "s", "i", "l", "o", "n">>, <<"r", "h", "o">>,
    <<"r", "h", "o">>, <<"z", "e", "t", "a">>, <<"s", "i", "g", "m", "a">>,
    <<"S", "i", "g", "m", "a">>, <<"e", "t", "a">>, <<"t", "a", "u">>,
    <<"u", "p", "s", "i", "l", "o", "n">>,
    <<"U", "p", "s", "i", "l", "o", "n">>, <<"i", "o", "t", "a">>,
    <<"p", "h", "i">>, <<"p", "h", "i">>, <<"P", "h", "i">>,
    <<"k", "a", "p", "p", "a">>, <<"c", "h", "i">>,
    <<"l", "a", "m", "b", "d", "a">>, <<"L", "a", "m", "b", "d", "a">>,
    <<"p", "s", "i">>, <<"P", "s", "i">>, <<"o", "m", "e", "g", "a">>,
    <<"O", "m", "e", "g", "a">>
  >>


\* this.token[0].toLowerCase() for the token types that become operators
LowerType(type) ==
  CASE type = "OR" -> S.or [] type = "AND" -> S.and
    [] type = "NE" -> S.ne [] type = "LE" -> S.le [] type = "GE" -> S.ge
    [] type = "IN" -> S.in [] type = "NOTIN" -> S.notin
    [] type = "NI" -> S.ni [] type = "NOTNI" -> S.notni
    [] type = "SUBSET" -> S.subset [] type = "NOTSUBSET" -> S.notsubset
    [] type = "SUPERSET" -> S.superset [] type = "NOTSUPERSET" -> S.notsuperset
    [] type = "UNION" -> S.union [] type = "INTERSECT" -> S.intersect
    [] OTHER -> <<type>>

(***************************************************************************)
(* Numbers: parseFloat on the text of a NUMBER token, and Number to string *)
(***************************************************************************)
DigitValue(c) ==
  CASE c = "0" -> 0 [] c = "1" -> 1 [] c = "2" -> 2 [] c = "3" -> 3 [] c = "4" -> 4
    [] c = "5" -> 5 [] c = "6" -> 6 [] c = "7" -> 7 [] c = "8" -> 8 [] c = "9" -> 9

DigitChar(d) ==
  CASE d = 0 -> "0" [] d = 1 -> "1" [] d = 2 -> "2" [] d = 3 -> "3" [] d = 4 -> "4"
    [] d = 5 -> "5" [] d = 6 -> "6" [] d = 7 -> "7" [] d = 8 -> "8" [] d = 9 -> "9"

RECURSIVE DigitsToNat(_)
DigitsToNat(ds) ==
  IF Len(ds) = 0 THEN 0
  ELSE 10 * DigitsToNat(SubSeq(ds, 1, Len(ds) - 1)) + DigitValue(ds[Len(ds)])

RECURSIVE NatToDigits(_)
NatToDigits(n) ==
  IF n < 10 THEN <<DigitChar(n)>> ELSE Append(NatToDigits(n \div 10), DigitChar(n % 10))

RECURSIVE Decimal(_, _)
\* the decimal number m * 10^e with m free of trailing zeros
Decimal(m, e) ==
  IF m = 0 THEN <<0, 0>>
  ELSE IF m % 10 = 0 THEN Decimal(m \div 10, e + 1)
  ELSE <<m, e>>

\* parseFloat(text) for a text the NUMBER rules matched
parseFloat(text) ==
  LET n1 == CountIn(Digits, text, 1)
      nf == IF n1 + 1 <= Len(text) /\ text[n1 + 1] = "."
            THEN CountIn(Digits, text, n1 + 2) ELSE 0
      fr == IF nf > 0 THEN 1 + nf ELSE 0
      ep == n1 + fr + 1
      hasE == ep <= Len(text)
      neg == hasE /\ text[ep + 1] = "-"
      sg  == IF hasE /\ text[ep + 1] \in {"+", "-"} THEN 1 ELSE 0
      ex  == IF hasE THEN DigitsToNat(Drop(ep + 1 + sg, text)) ELSE 0
      mant == DigitsToNat(SubSeq(text, 1, n1) \o SubSeq(text, n1 + 2, n1 + 1 + nf))
  IN Decimal(mant, (IF neg THEN 0 - ex ELSE ex) - nf)

Zeros(n) == [i \in 1..n |-> "0"]

\* Number.prototype.toString (ECMAScript Number::toString, radix 10) of
\* the positive decimal number n = <<m, e>> or of 0
NumberToString(n) ==
  LET ds == NatToDigits(n[1])
      k  == Len(ds)
      p  == k + n[2]     \* the value is 0.d1...dk * 10^p
      ee == p - 1
      expo == <<"e">> \o (IF ee < 0 THEN <<"-">> ELSE <<"+">>)
                      \o NatToDigits(IF ee < 0 THEN 0 - ee ELSE ee)
  IN IF n[1] = 0 THEN <<"0">>
     ELSE IF k <= p /\ p <= 21 THEN ds \o Zeros(p - k)
     ELSE IF 0 < p /\ p <= 21 THEN SubSeq(ds, 1, p) \o <<".">> \o Drop(p + 1, ds)
     ELSE IF -6 < p /\ p <= 0 THEN <<"0", ".">> \o Zeros(0 - p) \o ds
     ELSE IF k = 1 THEN ds \o expo
     ELSE <<ds[1], ".">> \o Drop(2, ds) \o expo
(***************************************************************************)
(* src/src/text-to-ast.js: class textToAst.  A parser instance p is the    *)
(* record of its fields: the five options, lexer (the fields of its        *)
(* lexer), token (the current token) and, for a call of convert that has   *)
(* thrown, err (the ParseError or Error thrown: message, the text spliced  *)
(* into it, and this.lexer.location at the throw).  A production returns   *)
(* [r |-> its result, p |-> the instance after it].  After a throw nothing *)
(* more of the call runs: the token of a thrown instance has type "ERR",   *)
(* which no branch tests for, and Throw and advance leave it alone.        *)
(* The productions are defined from baseFactor up to statement_list; a     *)
(* method that calls a method defined after it, or itself, calls it        *)
(* through production, by its name.                                        *)
(***************************************************************************)
Includes(arr, x) == \E i \in 1..Len(arr) : arr[i] = x

NoError == [msg |-> "", arg |-> <<>>, location |-> -1]

Thrown(p) == p.err.msg # ""

\* what a production returns: t is this.token[0] after it
R(r, p) == [r |-> r, p |-> p, t |-> p.token.type]

\* a throw that gives the place where the token begins (mutation of Throw)
Throw_at_start(p, msg, arg) ==
  IF Thrown(p) THEN p
  ELSE [p EXCEPT !.err = [msg |-> msg, arg |-> arg,
                          location |-> IF p.token.type \in {"EOF", "INVALID"}
                                       THEN p.lexer.location
                                       ELSE p.lexer.location - Len(p.token.text)],
                 !.token = Token("ERR", <<>>)]

\* throw new ParseError(msg + arg + ..., this.lexer.location)
Throw(p, msg, arg) ==
  IF Thrown(p) THEN p
  ELSE [p EXCEPT !.err = [msg |-> msg, arg |-> arg, location |-> p.lexer.location],
                 !.token = Token("ERR", <<>>)]

RECURSIVE production(_, _)

\* this.lexer.token_rules, the table the constructor gave to new lexer
token_rules(p) == IF p.token_rules = "latex_rules" THEN latex_rules ELSE text_rules

\* textToAst.advance
advance(p) ==
  IF Thrown(p) THEN p
  ELSE Let(lexer_advance(token_rules(p), p.lexer), LAMBDA lx :
         IF lx.token.type = "INVALID"
         THEN Throw([p EXCEPT !.lexer = [input |-> lx.input, location |-> lx.location],
                              !.token = lx.token],
                    "Invalid symbol '", lx.token.text)
         ELSE [p EXCEPT !.lexer = [input |-> lx.input, location |-> lx.location],
                        !.token = lx.token])

\* this.advance() inside a production
Advance(p) == production("advance", <<p>>)

\* the error of a factor that is missing (factor, and the subscripts of
\* baseFactor)
ThrowMissing(p) ==
  IF p.token.type = "EOF"
  THEN Throw(p, "Unexpected end of input", <<>>)
  ELSE Throw(p, "Invalid location of '", p.token.text)

RelationTokens ==
  {"=", "NE", "<", ">", "LE", "GE", "IN", "NOTIN", "NI", "NOTNI",
   "SUBSET", "NOTSUBSET", "SUPERSET", "NOTSUPERSET"}

\* baseFactor: the trailing  if (this.token[0] == '_') , where a missing
\* subscript is an error
subscripted(result, subresult) ==
  IF subresult.r = False
  THEN R(False, ThrowMissing(subresult.p))
  ELSE R(Node(<<"_">>, <<result, subresult.r>>), subresult.p)

\* a trailing subscript read with factor (mutation of subscript)
subscript_factor(x) ==
  IF x.t = "_"
  THEN IF x.r = False
       THEN R(False, Throw(x.p, "Invalid location of _", <<>>))
       ELSE subscripted(x.r, production("factor", <<Advance(x.p)>>))
  ELSE x

subscript(x) ==
  IF x.t = "_"
  THEN IF x.r = False
       THEN R(False, Throw(x.p, "Invalid location of _", <<>>))
       ELSE subscripted(x.r, production("baseFactor", <<Advance(x.p)>>))
  ELSE x

\* an omitted_parentheses that does not read
\* allowSimplifiedFunctionApplication (mutation of omitted_parentheses)
omitted_parentheses_always(result, p) ==
  LET arg == production("factor", <<p>>)
  IN R(Node(S.apply, <<result, arg.r>>), arg.p)

\* baseFactor, function branch, a name that must be applied and has no '('
\* after it:  if (!this.allowSimplifiedFunctionApplication) throw ...;
\* result = ['apply', result, this.factor()]
omitted_parentheses(result, p) ==
  IF ~p.allowSimplifiedFunctionApplication
  THEN R(False, Throw(p, "Expected ( after function", <<>>))
  ELSE LET arg == production("factor", <<p>>)
       IN R(Node(S.apply, <<result, arg.r>>), arg.p)

\* baseFactor, function branch:  if (this.token[0] != ')') throw ...;
\* if (parameters[0] == 'list') parameters[0] = 'tuple'
applied(result, parameters) ==
  IF parameters.t # ")"
  THEN R(False, Throw(parameters.p, "Expected )", <<>>))
  ELSE R(Node(S.apply,
              <<result,
                IF HasOperator(parameters.r, S.list)
                THEN Node(S.tuple, Operands(parameters.r))
                ELSE parameters.r>>),
         Advance(parameters.p))

\* latexToAst.baseFactor, function branch, the parameters after '{':  if
\* (this.token[0] != expected_right) throw ...
applied_in_braces(result, parameters) ==
  IF parameters.t # "}"
  THEN R(False, Throw(parameters.p, "Expected ", <<"}">>))
  ELSE R(Node(S.apply,
              <<result,
                IF HasOperator(parameters.r, S.list)
                THEN Node(S.tuple, Operands(parameters.r))
                ELSE parameters.r>>),
         Advance(parameters.p))

\* baseFactor, function branch, from  if (this.token[0] == '(')  on; in
\* latexToAst from  if (this.token[0] == '{' || this.token[0] == '(')  on
function_application(must_apply, x) ==
  CASE x.t = "(" -> applied(x.r, production("statement_list", <<Advance(x.p)>>))
    [] x.t = "{" /\ x.p.token_rules = "latex_rules" ->
         applied_in_braces(x.r, production("statement_list", <<Advance(x.p)>>))
    [] must_apply /\ ~Thrown(x.p) -> omitted_parentheses(x.r, x.p)
    [] OTHER -> x

\* baseFactor, function branch, from  if (this.token[0] == '^')  on
function_exponent(must_apply, x) ==
  IF x.t = "^"
  THEN LET ex == production("factor", <<Advance(x.p)>>)
       IN function_application(must_apply, R(Node(<<"^">>, <<x.r, ex.r>>), ex.p))
  ELSE function_application(must_apply, x)

\* baseFactor, function branch: the loop  while (this.token[0] == "'")  and
\* the rest of the branch
function_primes(must_apply, x) ==
  IF x.t = "'"
  THEN production("function_primes",
                  <<must_apply, R(Node(S.prime, <<x.r>>), Advance(x.p))>>)
  ELSE function_exponent(must_apply, x)

\* baseFactor, function branch:  if (this.token[0] == '_') , the subscript
\* of the name
function_subscript(name, must_apply, subresult) ==
  IF subresult.r = False
  THEN R(False, ThrowMissing(subresult.p))
  ELSE function_primes(must_apply,
                       R(Node(<<"_">>, <<Str(toLowerCase(name)), subresult.r>>),
                         subresult.p))

\* baseFactor, the branch of a name in appliedFunctionSymbols or
\* functionSymbols, from  var must_apply = false  to the end of the branch;
\* p1 is the instance after  this.advance()
function_factor(name, must_apply, p1) ==
  IF p1.token.type = "_"
  THEN function_subscript(name, must_apply, production("baseFactor", <<Advance(p1)>>))
  ELSE function_primes(must_apply, R(Str(toLowerCase(name)), p1))

\* a grouping that takes a group of any length closed by the other bracket
\* for an interval (mutation of grouping)
grouping_any_length(token_left, l) ==
  LET expected_right == IF token_left = "(" THEN ")"
                        ELSE IF token_left = "[" THEN "]" ELSE "}"
      other_right == IF token_left = "(" THEN "]"
                     ELSE IF token_left = "[" THEN ")" ELSE "null"
      n_elements == IF HasOperator(l.r, S.list) THEN Len(l.r.elems) - 1 ELSE 1
      closed == IF token_left = "("
                THEN Node(S.tuple, <<Bool(FALSE), Bool(TRUE)>>)
                ELSE Node(S.tuple, <<Bool(TRUE), Bool(FALSE)>>)
  IN CASE l.t # expected_right /\ other_right = "null" ->
            R(False, Throw(l.p, "Expected ", <<expected_right>>))
       [] l.t # expected_right /\ l.t # other_right ->
            R(False, Throw(l.p, "Expected ) or ]", <<>>))
       [] l.t # expected_right ->
            R(Node(S.interval, <<Node(S.tuple, Operands(l.r)), closed>>), Advance(l.p))
       [] n_elements >= 2 ->
            R(Node(IF token_left = "(" THEN S.tuple
                   ELSE IF token_left = "[" THEN S.array ELSE S.set,
                   Operands(l.r)), Advance(l.p))
       \* ['set'].concat(result): Array.prototype.concat appends the ELEMENTS
       \* of an argument that is an array
       [] token_left = "{" ->
            R(IF IsArray(l.r) THEN Arr(<<Str(S.set)>> \o l.r.elems)
                              ELSE Node(S.set, <<l.r>>), Advance(l.p))
       [] OTHER -> R(l.r, Advance(l.p))

\* baseFactor, the branch of '(' , '[' and '{', after  var result =
\* this.statement_list() : l is its result and the instance now
grouping(token_left, l) ==
  LET expected_right == IF token_left = "(" THEN ")"
                        ELSE IF token_left = "[" THEN "]" ELSE "}"
      other_right == IF token_left = "(" THEN "]"
                     ELSE IF token_left = "[" THEN ")" ELSE "null"
      n_elements == IF HasOperator(l.r, S.list) THEN Len(l.r.elems) - 1 ELSE 1
      closed == IF token_left = "("
                THEN Node(S.tuple, <<Bool(FALSE), Bool(TRUE)>>)
                ELSE Node(S.tuple, <<Bool(TRUE), Bool(FALSE)>>)
  IN CASE l.t # expected_right /\ (n_elements # 2 \/ other_right = "null") ->
            R(False, Throw(l.p, "Expected ", <<expected_right>>))
       [] l.t # expected_right /\ l.t # other_right ->
            R(False, Throw(l.p, "Expected ) or ]", <<>>))
       [] l.t # expected_right ->
            R(Node(S.interval, <<Node(S.tuple, Operands(l.r)), closed>>), Advance(l.p))
       [] n_elements >= 2 ->
            R(Node(IF token_left = "(" THEN S.tuple
                   ELSE IF token_left = "[" THEN S.array ELSE S.set,
                   Operands(l.r)), Advance(l.p))
       \* ['set'].concat(result): Array.prototype.concat appends the ELEMENTS
       \* of an argument that is an array
       [] token_left = "{" ->
            R(IF IsArray(l.r) THEN Arr(<<Str(S.set)>> \o l.r.elems)
                              ELSE Node(S.set, <<l.r>>), Advance(l.p))
       [] OTHER -> R(l.r, Advance(l.p))

\* result.match(/[\d]/g)
HasDigit(str) == \E i \in 1..Len(str) : str[i] \in Digits

RECURSIVE UnputLetters(_, _, _)
\* for (var i = result.length - 1; i >= 0; i--) { unput(" "); unput(result[i]) }
UnputLetters(lx, result, i) ==
  IF i < 1 THEN lx
  ELSE UnputLetters(unput(unput(lx, <<" ">>), <<result[i]>>), result, i - 1)

\* a split that does not test the identifier for digits (mutation of
\* split)
split_with_digits(p) ==
  /\ p.splitSymbols
  /\ ~(\/ p.token.type = "VARMULTICHAR"
       \/ Includes(p.unsplitSymbols, p.token.text)
       \/ Len(p.token.text) = 1)

\* baseFactor, the branch of a VAR or VARMULTICHAR token that names no
\* function:  var split = this.splitSymbols; if (split) { ... }
split(p) ==
  /\ p.splitSymbols
  /\ ~(\/ p.token.type = "VARMULTICHAR"
       \/ Includes(p.unsplitSymbols, p.token.text)
       \/ Len(p.token.text) = 1)
  /\ ~HasDigit(p.token.text)

\* a primary that knows the names of appliedFunctionSymbols only (mutation
\* of primary)
primary_applied_only(p) ==
  CASE p.token.type = "NUMBER" -> R(Num(parseFloat(p.token.text)), Advance(p))
    [] p.token.type = "INFINITY" -> R(Str(S.infinity), Advance(p))
    [] /\ p.token.type \in {"VAR", "VARMULTICHAR"}
       /\ Includes(p.appliedFunctionSymbols, p.token.text) ->
         function_factor(p.token.text, TRUE, Advance(p))
    [] p.token.type \in {"VAR", "VARMULTICHAR"} -> R(Str(p.token.text), Advance(p))
    [] p.token.type \in {"(", "[", "{"} ->
         grouping(p.token.type, production("statement_list", <<Advance(p)>>))
    [] OTHER -> R(False, p)

\* baseFactor up to the trailing subscript: the result, False when the
\* token starts no factor
primary(p) ==
  CASE p.token.type = "NUMBER" -> R(Num(parseFloat(p.token.text)), Advance(p))
    [] p.token.type = "INFINITY" -> R(Str(S.infinity), Advance(p))
    [] /\ p.token.type \in {"VAR", "VARMULTICHAR"}
       /\ \/ Includes(p.appliedFunctionSymbols, p.token.text)
          \/ Includes(p.functionSymbols, p.token.text) ->
         function_factor(p.token.text,
                         Includes(p.appliedFunctionSymbols, p.token.text),
                         Advance(p))
    [] p.token.type \in {"VAR", "VARMULTICHAR"} -> R(Str(p.token.text), Advance(p))
    [] p.token.type \in {"(", "[", "{"} ->
         grouping(p.token.type, production("statement_list", <<Advance(p)>>))
    [] OTHER -> R(False, p)

baseFactor(p) ==
  CASE p.token.type = "DERIVATIVE" ->
         R(Node(S.derivative_leibniz,
                <<Str(<<p.token.text[2]>>), Str(<<p.token.text[Len(p.token.text)]>>)>>),
           Advance(p))
    [] p.token.type = "DERIVATIVEMULT" ->
         R(Node(S.derivative_leibniz_mult,
                <<Num(parseFloat(<<p.token.text[3]>>)), Str(<<p.token.text[4]>>),
                  Str(<<p.token.text[Len(p.token.text) - 2]>>)>>),
           Advance(p))
    [] /\ p.token.type \in {"VAR", "VARMULTICHAR"}
       /\ ~Includes(p.appliedFunctionSymbols, p.token.text)
       /\ ~Includes(p.functionSymbols, p.token.text)
       /\ split(p) ->
         production("baseFactor",
                    <<Advance([p EXCEPT !.lexer = UnputLetters(p.lexer, p.token.text,
                                                               Len(p.token.text))])>>)
    [] OTHER -> subscript(primary(p))

\* a nonMinusFactor that reads at most one '!' or "'" (mutation of
\* factorial_loop)
factorial_loop_once(result) ==
  CASE result.t = "!" ->
         R(Node(S.apply, <<Str(S.factorial), result.r>>), Advance(result.p))
    [] result.t = "'" -> R(Node(S.prime, <<result.r>>), Advance(result.p))
    [] OTHER -> result

\* nonMinusFactor: the loop over '!' and "'"
factorial_loop(result) ==
  CASE result.t = "!" ->
         production("factorial_loop",
                    <<R(Node(S.apply, <<Str(S.factorial), result.r>>), Advance(result.p))>>)
    [] result.t = "'" ->
         production("factorial_loop", <<R(Node(S.prime, <<result.r>>), Advance(result.p))>>)
    [] OTHER -> result

\* nonMinusFactor, from  if (this.token[0] == '^')  on
exponent(result) ==
  IF result.t = "^"
  THEN IF result.r = False
       THEN R(False, Throw(result.p, "Invalid location of ^", <<>>))
       ELSE LET e == production("factor", <<Advance(result.p)>>)
            IN R(Node(<<"^">>, <<result.r, e.r>>), e.p)
  ELSE result

\* nonMinusFactor after  var result = this.baseFactor()
postfix(b) ==
  IF b.t \in {"!", "'"}
  THEN IF b.r = False
       THEN R(False, Throw(b.p, "Invalid location of ", <<b.t>>))
       ELSE exponent(factorial_loop(b))
  ELSE exponent(b)

nonMinusFactor(p) == postfix(production("baseFactor", <<p>>))

\* factor, the branch of '|':  if (this.token[0] != '|') throw ...
absolute_value(s) ==
  IF s.t # "|"
  THEN R(False, Throw(s.p, "Expected |", <<>>))
  ELSE R(Node(S.apply, <<Str(S.abs), s.r>>), Advance(s.p))

\* factor, the last branch:  if (result === false) { throw ... }
required(result) ==
  IF result.r = False THEN R(False, ThrowMissing(result.p)) ELSE result

\* factor, the branch of '-'
negated(f) == R(Node(<<"-">>, <<f.r>>), f.p)

factor(p) ==
  CASE p.token.type = "-" -> negated(production("factor", <<Advance(p)>>))
    [] p.token.type = "|" -> absolute_value(production("statement", <<Advance(p)>>))
    [] OTHER -> required(nonMinusFactor(p))

\* a term_loop that multiplies at * and / only (mutation of term_loop)
term_loop_explicit_only(lhs) ==
  IF lhs.t \in {"*", "/"}
  THEN LET f == production("factor", <<Advance(lhs.p)>>)
       IN production("term_loop", <<R(Node(<<lhs.t>>, <<lhs.r, f.r>>), f.p)>>)
  ELSE lhs

\* term: the do ... while (keepGoing) loop
term_loop(lhs) ==
  IF lhs.t \in {"*", "/"}
  THEN LET f == production("factor", <<Advance(lhs.p)>>)
       IN production("term_loop", <<R(Node(<<lhs.t>>, <<lhs.r, f.r>>), f.p)>>)
  ELSE LET rhs == production("nonMinusFactor", <<lhs.p>>)
       IN IF rhs.r # False
          THEN production("term_loop", <<R(Node(<<"*">>, <<lhs.r, rhs.r>>), rhs.p)>>)
          ELSE R(lhs.r, rhs.p)

term(p) == term_loop(factor(p))

\* an expression_loop that builds a binary node for a subtraction
\* (mutation of expression_loop)
expression_loop_binary_minus(lhs) ==
  IF lhs.t \in {"+", "-", "UNION", "INTERSECT"}
  THEN LET rhs == production("term", <<Advance(lhs.p)>>)
       IN production("expression_loop",
                     <<R(Node(LowerType(lhs.t), <<lhs.r, rhs.r>>), rhs.p)>>)
  ELSE lhs

\* expression: the while loop
expression_loop(lhs) ==
  IF lhs.t \in {"+", "-", "UNION", "INTERSECT"}
  THEN LET rhs == production("term", <<Advance(lhs.p)>>)
       IN production("expression_loop",
                     <<R(IF lhs.t = "-"
                         THEN Node(<<"+">>, <<lhs.r, Node(<<"-">>, <<rhs.r>>)>>)
                         ELSE Node(LowerType(lhs.t), <<lhs.r, rhs.r>>),
                         rhs.p)>>)
  ELSE lhs

expression(p) == expression_loop(term(IF p.token.type = "+" THEN Advance(p) ELSE p))

\* an inequality_loop that records every comparison as strict (mutation of
\* inequality_loop)
inequality_loop_all_strict(types, args, strict, e) ==
  IF e.t \in {types[1], types[2]}
  THEN production("inequality_loop",
                  <<types, Append(args, e.r), Append(strict, Bool(TRUE)),
                    production("expression", <<Advance(e.p)>>)>>)
  ELSE production("relation_loop",
                  <<R(Node(IF types[1] = "<" THEN S.lts ELSE S.gts,
                           <<Arr(Append(args, e.r)), Arr(strict)>>), e.p)>>)

\* an inequality_loop that goes on at a comparison of either direction
\* (mutation of inequality_loop)
inequality_loop_any_direction(types, args, strict, e) ==
  IF e.t \in {"<", "LE", ">", "GE"}
  THEN production("inequality_loop",
                  <<types, Append(args, e.r), Append(strict, Bool(e.t \in {"<", ">"})),
                    production("expression", <<Advance(e.p)>>)>>)
  ELSE production("relation_loop",
                  <<R(Node(IF types[1] = "<" THEN S.lts ELSE S.gts,
                           <<Arr(Append(args, e.r)), Arr(strict)>>), e.p)>>)

\* relation: the inner loops  while ((this.token[0] == '<') || this.token[0]
\* == 'LE')  and  while ((this.token[0] == '>') || this.token[0] == 'GE'),
\* types = the two token types, the first of them the strict one, e the
\* expression just read, args and strict as they are before e is pushed;
\* at the end lhs = [tag, args, strict] and the outer loop goes on
inequality_loop(types, args, strict, e) ==
  IF e.t \in {types[1], types[2]}
  THEN production("inequality_loop",
                  <<types, Append(args, e.r), Append(strict, Bool(e.t = types[1])),
                    production("expression", <<Advance(e.p)>>)>>)
  ELSE production("relation_loop",
                  <<R(Node(IF types[1] = "<" THEN S.lts ELSE S.gts,
                           <<Arr(Append(args, e.r)), Arr(strict)>>), e.p)>>)

\* relation: the loop  while (this.token[0] === '=') , and the outer loop
\* after it
equality_loop(lhs) ==
  IF lhs.t = "="
  THEN LET e == production("expression", <<Advance(lhs.p)>>)
       IN production("equality_loop", <<R(Arr(Append(lhs.r.elems, e.r)), e.p)>>)
  ELSE production("relation_loop", <<lhs>>)

\* relation: one turn of the outer while loop, after  var rhs =
\* this.expression() : operation is the relation read
relation_step(operation, lhs, rhs) ==
  CASE operation \in {<<"<">>, S.le} /\ rhs.t \in {"<", "LE"} ->
         production("inequality_loop",
                    <<<<"<", "LE">>, <<Str(S.tuple), lhs>>,
                      <<Str(S.tuple), Bool(operation = <<"<">>)>>, rhs>>)
    [] operation \in {<<">">>, S.ge} /\ rhs.t \in {">", "GE"} ->
         production("inequality_loop",
                    <<<<">", "GE">>, <<Str(S.tuple), lhs>>,
                      <<Str(S.tuple), Bool(operation = <<">">>)>>, rhs>>)
    [] operation = <<"=">> ->
         production("equality_loop", <<R(Node(<<"=">>, <<lhs, rhs.r>>), rhs.p)>>)
    [] OTHER -> production("relation_loop", <<R(Node(operation, <<lhs, rhs.r>>), rhs.p)>>)

\* relation: the outer while loop
relation_loop(lhs) ==
  IF lhs.t \in RelationTokens
  THEN relation_step(LowerType(lhs.t), lhs.r,
                     production("expression", <<Advance(lhs.p)>>))
  ELSE lhs

\* relation, the branch of 'NOT' and '!'
negation(r) == R(Node(S.not, <<r.r>>), r.p)

relation(p) ==
  IF p.token.type \in {"NOT", "!"}
  THEN negation(production("relation", <<Advance(p)>>))
  ELSE relation_loop(expression(p))

statement2_loop(lhs) ==
  IF lhs.t = "AND"
  THEN LET rhs == production("relation", <<Advance(lhs.p)>>)
       IN production("statement2_loop",
                     <<R(Node(LowerType(lhs.t), <<lhs.r, rhs.r>>), rhs.p)>>)
  ELSE lhs

statement2(p) == statement2_loop(relation(p))

\* a statement whose loop reads a relation after 'OR' (mutation of
\* statement_loop)
statement_loop_relation(lhs) ==
  IF lhs.t = "OR"
  THEN LET rhs == production("relation", <<Advance(lhs.p)>>)
       IN production("statement_loop",
                     <<R(Node(LowerType(lhs.t), <<lhs.r, rhs.r>>), rhs.p)>>)
  ELSE lhs

\* statement: the while loop, lhs the value of lhs and the instance
statement_loop(lhs) ==
  IF lhs.t = "OR"
  THEN LET rhs == production("statement2", <<Advance(lhs.p)>>)
       IN production("statement_loop",
                     <<R(Node(LowerType(lhs.t), <<lhs.r, rhs.r>>), rhs.p)>>)
  ELSE lhs

statement(p) == statement_loop(statement2(p))

\* statement_list: the loop  while (this.token[0] == ",")  and what follows;
\* s is the statement just read, list the statements before it
statement_list_loop(list, s) ==
  IF s.t = ","
  THEN production("statement_list_loop",
                  <<Append(list, s.r), production("statement", <<Advance(s.p)>>)>>)
  ELSE IF Len(list) > 0 THEN R(Node(S.list, Append(list, s.r)), s.p) ELSE s

statement_list(p) == statement_list_loop(<<>>, statement(p))

(***************************************************************************)
(* src/src/latex-to-ast.js: class latexToAst.  Its methods statement_list  *)
(* to nonMinusFactor, advance and convert are the methods of textToAst     *)
(* word for word; an instance is told from a textToAst instance by the     *)
(* table its lexer was built with, token_rules.  What differs is           *)
(* baseFactor, which follows.                                              *)
(***************************************************************************)
\* /\\var\s*\{\s*([a-zA-Z0-9]+)\s*\}/.exec(text)[1], and the same for \begin
\* and \end: the name inside the braces
BracedName(text) ==
  LET open == CHOOSE i \in 1..Len(text) : text[i] = "{"
      start == open + 1 + CountIn(Whitespace, text, open + 1)
  IN SubSeq(text, start, start + CountIn(Letters \cup Digits, text, start) - 1)

\* '{' statement '}' of \frac and \sqrt:  if (this.token[0] != '{') throw
\* ...; this.advance(); this.statement(); if (this.token[0] != '}') throw
\* ...; this.advance()
braced_statement(p) ==
  IF p.token.type # "{"
  THEN R(False, Throw(p, "Expected {", <<>>))
  ELSE LET s == production("statement", <<Advance(p)>>)
       IN IF s.t # "}"
          THEN R(False, Throw(s.p, "Expected }", <<>>))
          ELSE R(s.r, Advance(s.p))

\* baseFactor, the branch of FRAC, after the numerator
fraction(numerator) ==
  LET denominator == production("braced_statement", <<numerator.p>>)
  IN R(Node(<<"/">>, <<numerator.r, denominator.r>>), denominator.p)

\* baseFactor, the branch of SQRT:  var root = 2; if (this.token[0] == '[')
\* { ... root = parameter; }
root_index(p) ==
  IF p.token.type = "["
  THEN LET parameter == production("statement", <<Advance(p)>>)
       IN IF parameter.t # "]"
          THEN R(False, Throw(parameter.p, "Expected ]", <<>>))
          ELSE R(parameter.r, Advance(parameter.p))
  ELSE R(Num(<<2, 0>>), p)

StripZeros(str) == Drop(CountIn({"0"}, str, 1) + 1, str)

\* Number(str) is 2, for a string of letters and digits: 2 in decimal, with
\* an exponent of zero, or in one of the radix notations 0x 0o 0b
IsNumberTwo(str) ==
  \/ LET body == StripZeros(str)
     IN /\ Len(body) >= 1 /\ body[1] = "2"
        /\ \/ Len(body) = 1
           \/ /\ Len(body) >= 3 /\ body[2] \in {"e", "E"}
              /\ StripZeros(Drop(3, body)) = <<>>
  \/ /\ Len(str) >= 3 /\ str[1] = "0"
     /\ \/ str[2] \in {"x", "X", "o", "O"} /\ StripZeros(Drop(3, str)) = <<"2">>
        \/ str[2] \in {"b", "B"} /\ StripZeros(Drop(3, str)) = <<"1", "0">>

\* root == 2, the abstract equality of JS: a number is compared as it is, a
\* string by Number(string); an array is compared by its string, which for
\* a node (operator first, at least one operand) holds a comma and is no
\* number
LooselyTwo(root) ==
  \/ root.k = "number" /\ root.num = <<2, 0>>
  \/ root.k = "string" /\ IsNumberTwo(root.str)

\* a square root that compares the index with the number 2 only (mutation
\* of square_root)
square_root_strict(root) ==
  LET parameter == production("braced_statement", <<root.p>>)
  IN R(IF root.r = Num(<<2, 0>>)
       THEN Node(S.apply, <<Str(<<"s", "q", "r", "t">>), parameter.r>>)
       ELSE Node(<<"^">>, <<parameter.r, Node(<<"/">>, <<Num(<<1, 0>>), root.r>>)>>),
       parameter.p)

\* baseFactor, the branch of SQRT, from  if (this.token[0] != '{')  on
square_root(root) ==
  LET parameter == production("braced_statement", <<root.p>>)
  IN R(IF LooselyTwo(root.r)
       THEN Node(S.apply, <<Str(<<"s", "q", "r", "t">>), parameter.r>>)
       ELSE Node(<<"^">>, <<parameter.r, Node(<<"/">>, <<Num(<<1, 0>>), root.r>>)>>),
       parameter.p)

RECURSIVE Max(_)
Max(lengths) ==
  IF Len(lengths) = 0 THEN 0
  ELSE LET m == Max(Drop(2, lengths)) IN IF lengths[1] > m THEN lengths[1] ELSE m

\* latexToAst.baseFactor, a matrix environment:  // create matrix
matrix(all_rows) ==
  LET n_rows == Len(all_rows)
      n_cols == Max([i \in 1..Len(all_rows) |-> Len(all_rows[i])])
      new_row(r) == Arr(<<Str(S.tuple)>> \o r
                        \o [i \in 1..(n_cols - Len(r)) |-> Num(<<0, 0>>)])
      body == Arr(<<Str(S.tuple)>> \o [i \in 1..n_rows |-> new_row(all_rows[i])])
  IN Arr(<<Str(S.matrix),
           Arr(<<Str(S.tuple), Num(Decimal(n_rows, 0)), Num(Decimal(n_cols, 0))>>),
           body>>)

\* row.push(0) when the entry before a separator is blank
blank_entry(row, last_token, separators) ==
  IF last_token \in separators THEN Append(row, Num(<<0, 0>>)) ELSE row

\* baseFactor, a matrix environment, from  // token is ENDENVIRONMENT  on
end_environment(environment, all_rows, row, last_token, p) ==
  IF BracedName(p.token.text) # environment
  THEN R(False, Throw(p, "Expected \\end{", environment))
  ELSE R(matrix(Append(all_rows, blank_entry(row, last_token, {"&"}))), Advance(p))

\* baseFactor, a matrix environment: the loop  while(this.token[0] !==
\* 'ENDENVIRONMENT') ; the test  last_token == '&' || last_token ==
\* 'LINEBREAK' || 'BEGINENVIRONMENT'  of its last branch is true of every
\* last_token
environment_loop(environment, all_rows, row, last_token, p) ==
  CASE p.token.type = "ENDENVIRONMENT" ->
         end_environment(environment, all_rows, row, last_token, p)
    [] p.token.type = "&" ->
         production("environment_loop",
                    <<environment, all_rows,
                      blank_entry(row, last_token, {"&", "LINEBREAK"}), "&", Advance(p)>>)
    [] p.token.type = "LINEBREAK" ->
         production("environment_loop",
                    <<environment,
                      Append(all_rows, blank_entry(row, last_token, {"&", "LINEBREAK"})),
                      <<>>, "LINEBREAK", Advance(p)>>)
    [] Thrown(p) -> R(False, p)
    [] OTHER ->
         LET entry == production("statement", <<p>>)
         IN production("environment_loop",
                       <<environment, all_rows, Append(row, entry.r), " ", entry.p>>)

\* baseFactor, the branch of BEGINENVIRONMENT
begin_environment(p) ==
  IF BracedName(p.token.text) \in
       {<<"m", "a", "t", "r", "i", "x">>, <<"p", "m", "a", "t", "r", "i", "x">>,
        <<"b", "m", "a", "t", "r", "i", "x">>}
  THEN production("environment_loop",
                  <<BracedName(p.token.text), <<>>, <<>>, p.token.type, Advance(p)>>)
  ELSE R(False, Throw(p, "Unrecognized environment ", BracedName(p.token.text)))

\* a grouping in which { } builds a set, as \{ \} does (mutation of
\* latex_grouping)
latex_grouping_curly_set(token_left, l) ==
  LET expected_right == CASE token_left = "(" -> ")"
                          [] token_left = "[" -> "]"
                          [] token_left = "{" -> "}"
                          [] OTHER -> "RBRACE"
      other_right == CASE token_left = "(" -> "]"
                       [] token_left = "[" -> ")"
                       [] OTHER -> "null"
      n_elements == IF HasOperator(l.r, S.list) THEN Len(l.r.elems) - 1 ELSE 1
      closed == IF token_left = "("
                THEN Node(S.tuple, <<Bool(FALSE), Bool(TRUE)>>)
                ELSE Node(S.tuple, <<Bool(TRUE), Bool(FALSE)>>)
  IN CASE l.t # expected_right /\ (n_elements # 2 \/ other_right = "null") ->
            R(False, Throw(l.p, "Expected ",
                           IF expected_right = "RBRACE"
                           THEN <<"R", "B", "R", "A", "C", "E">> ELSE <<expected_right>>))
       [] l.t # expected_right /\ l.t # other_right ->
            R(False, Throw(l.p, "Expected ) or ]", <<>>))
       [] l.t # expected_right ->
            R(Node(S.interval, <<Node(S.tuple, Operands(l.r)), closed>>), Advance(l.p))
       [] n_elements >= 2 ->
            R(Node(CASE token_left = "(" -> S.tuple
                     [] token_left = "[" -> S.array
                     [] OTHER -> S.set,
                   Operands(l.r)), Advance(l.p))
       \* ['set'].concat(result): Array.prototype.concat appends the ELEMENTS
       \* of an argument that is an array
       [] token_left = "LBRACE" ->
            R(IF IsArray(l.r) THEN Arr(<<Str(S.set)>> \o l.r.elems)
                              ELSE Node(S.set, <<l.r>>), Advance(l.p))
       [] OTHER -> R(l.r, Advance(l.p))

\* baseFactor, the branch of '(' , '[' , '{' and LBRACE, after  result =
\* this.statement_list() : l is its result and the instance now
latex_grouping(token_left, l) ==
  LET expected_right == CASE token_left = "(" -> ")"
                          [] token_left = "[" -> "]"
                          [] token_left = "{" -> "}"
                          [] OTHER -> "RBRACE"
      other_right == CASE token_left = "(" -> "]"
                       [] token_left = "[" -> ")"
                       [] OTHER -> "null"
      n_elements == IF HasOperator(l.r, S.list) THEN Len(l.r.elems) - 1 ELSE 1
      closed == IF token_left = "("
                THEN Node(S.tuple, <<Bool(FALSE), Bool(TRUE)>>)
                ELSE Node(S.tuple, <<Bool(TRUE), Bool(FALSE)>>)
  IN CASE l.t # expected_right /\ (n_elements # 2 \/ other_right = "null") ->
            R(False, Throw(l.p, "Expected ",
                           IF expected_right = "RBRACE"
                           THEN <<"R", "B", "R", "A", "C", "E">> ELSE <<expected_right>>))
       [] l.t # expected_right /\ l.t # other_right ->
            R(False, Throw(l.p, "Expected ) or ]", <<>>))
       [] l.t # expected_right ->
            R(Node(S.interval, <<Node(S.tuple, Operands(l.r)), closed>>), Advance(l.p))
       [] n_elements >= 2 ->
            R(Node(CASE token_left \in {"(", "{"} -> S.tuple
                     [] token_left = "[" -> S.array
                     [] OTHER -> S.set,
                   Operands(l.r)), Advance(l.p))
       \* ['set'].concat(result): Array.prototype.concat appends the ELEMENTS
       \* of an argument that is an array
       [] token_left = "LBRACE" ->
            R(IF IsArray(l.r) THEN Arr(<<Str(S.set)>> \o l.r.elems)
                              ELSE Node(S.set, <<l.r>>), Advance(l.p))
       [] OTHER -> R(l.r, Advance(l.p))

\* baseFactor, the branch of VAR, LATEXCOMMAND and VARMULTICHAR: result
\* before it is looked up among the function names
latex_name(token) ==
  CASE token.type = "LATEXCOMMAND" -> Drop(2, token.text)
    [] token.type = "VARMULTICHAR" -> BracedName(token.text)
    [] OTHER -> token.text

\* baseFactor, the branch of VAR, LATEXCOMMAND and VARMULTICHAR
latex_symbol(p, result) ==
  CASE /\ p.token.type = "LATEXCOMMAND"
       /\ ~Includes(p.appliedFunctionSymbols, result)
       /\ ~Includes(p.functionSymbols, result)
       /\ ~Includes(p.allowedLatexSymbols, result) ->
         R(False, Throw(p, "Unrecognized latex command ", p.token.text))
    [] \/ Includes(p.appliedFunctionSymbols, result)
       \/ Includes(p.functionSymbols, result) ->
         function_factor(result, Includes(p.appliedFunctionSymbols, result), Advance(p))
    [] OTHER -> R(Str(result), Advance(p))

\* baseFactor from  if (this.token[0] == 'NUMBER')  up to the trailing
\* subscript: the result, False when the token starts no factor
latex_primary(p) ==
  CASE p.token.type = "NUMBER" -> R(Num(parseFloat(p.token.text)), Advance(p))
    [] p.token.type = "INFINITY" -> R(Str(S.infinity), Advance(p))
    [] p.token.type = "SQRT" -> square_root(root_index(Advance(p)))
    [] p.token.type \in {"VAR", "LATEXCOMMAND", "VARMULTICHAR"} ->
         latex_symbol(p, latex_name(p.token))
    [] p.token.type \in {"(", "[", "{", "LBRACE"} ->
         latex_grouping(p.token.type, production("statement_list", <<Advance(p)>>))
    [] OTHER -> R(False, p)

\* latexToAst.baseFactor
latex_baseFactor(p) ==
  CASE p.token.type = "FRAC" ->
         fraction(production("braced_statement", <<Advance(p)>>))
    [] p.token.type = "BEGINENVIRONMENT" -> begin_environment(p)
    [] OTHER -> subscript(latex_primary(p))

\* a call of a method of the parser, by its name: this.<name>(...)
production(name, args) ==
  CASE name = "advance" -> advance(args[1])
    [] name = "statement_list" -> statement_list(args[1])
    [] name = "statement_list_loop" -> statement_list_loop(args[1], args[2])
    [] name = "statement" -> statement(args[1])
    [] name = "statement_loop" -> statement_loop(args[1])
    [] name = "statement2" -> statement2(args[1])
    [] name = "statement2_loop" -> statement2_loop(args[1])
    [] name = "relation" -> relation(args[1])
    [] name = "relation_loop" -> relation_loop(args[1])
    [] name = "inequality_loop" -> inequality_loop(args[1], args[2], args[3], args[4])
    [] name = "equality_loop" -> equality_loop(args[1])
    [] name = "expression" -> expression(args[1])
    [] name = "expression_loop" -> expression_loop(args[1])
    [] name = "term" -> term(args[1])
    [] name = "term_loop" -> term_loop(args[1])
    [] name = "factor" -> factor(args[1])
    [] name = "nonMinusFactor" -> nonMinusFactor(args[1])
    [] name = "factorial_loop" -> factorial_loop(args[1])
    [] name = "baseFactor" /\ args[1].token_rules = "latex_rules" ->
         latex_baseFactor(args[1])
    [] name = "baseFactor" -> baseFactor(args[1])
    [] name = "braced_statement" -> braced_statement(args[1])
    [] name = "environment_loop" ->
         environment_loop(args[1], args[2], args[3], args[4], args[5])
    [] name = "function_primes" -> function_primes(args[1], args[2])

(***************************************************************************)
(* flatten (./flatten, imported by both parsers; the file is not among the *)
(* sources): the normalizer as the specification describes it, section     *)
(* 4.3: nested nodes that share one of the tags + * and or tuple array set *)
(* list become one flat node, the operands in left-to-right order.         *)
(***************************************************************************)
FlattenedOperators ==
  {<<"+">>, <<"*">>, S.and, S.or, S.tuple, S.array, S.set, S.list}

RECURSIVE Splice(_, _)
\* the operands, each operand that is a node of the same operator replaced
\* by its own operands
Splice(operator, operands) ==
  IF Len(operands) = 0 THEN <<>>
  ELSE (IF HasOperator(operands[1], operator)
        THEN Operands(operands[1]) ELSE <<operands[1]>>)
       \o Splice(operator, Drop(2, operands))

RECURSIVE flatten(_)

\* a flatten that splices the operands of the root only and leaves the
\* operands as they are (mutation of flatten)
flatten_root_only(tree) ==
  IF ~IsArray(tree) \/ Len(tree.elems) = 0 THEN tree
  ELSE IF tree.elems[1].k = "string" /\ tree.elems[1].str \in FlattenedOperators
  THEN Arr(<<tree.elems[1]>> \o Splice(tree.elems[1].str, Operands(tree)))
  ELSE tree

flatten(tree) ==
  IF ~IsArray(tree) \/ Len(tree.elems) = 0 THEN tree
  ELSE LET operator == tree.elems[1]
           operands == [i \in 1..(Len(tree.elems) - 1) |-> flatten(tree.elems[i + 1])]
       IN IF operator.k = "string" /\ operator.str \in FlattenedOperators
          THEN Arr(<<operator>> \o Splice(operator.str, operands))
          ELSE Arr(<<operator>> \o operands)

\* String typed values handed between the converters: typeof and the value
StringValue(str) == [type |-> "string", v |-> str]

\* a convert that returns the result of statement_list as it is (mutation
\* of convert)
convert_without_flatten(p, input) ==
  IF input.type # "string"
  THEN Let(Throw([p EXCEPT !.err = NoError], "Input must be a string", <<>>), LAMBDA q :
         [p |-> q, ok |-> FALSE, tree |-> False, err |-> q.err])
  ELSE Let(production("statement_list",
                      <<Advance([p EXCEPT !.err = NoError, !.lexer = set_input(input.v)])>>),
           LAMBDA result :
         Let(IF result.t # "EOF"
             THEN Throw(result.p, "Invalid location of '", result.p.token.text)
             ELSE result.p, LAMBDA p2 :
           [p |-> p2, ok |-> ~Thrown(p2),
            tree |-> IF Thrown(p2) THEN False ELSE result.r,
            err |-> p2.err]))

\* a convert that reads its input behind what the call before has left in
\* the lexer (mutation of convert)
convert_on_leftover(p, input) ==
  IF input.type # "string"
  THEN Let(Throw([p EXCEPT !.err = NoError], "Input must be a string", <<>>), LAMBDA q :
         [p |-> q, ok |-> FALSE, tree |-> False, err |-> q.err])
  ELSE Let(production("statement_list",
                      <<Advance([p EXCEPT !.err = NoError,
                                          !.lexer = [input |-> p.lexer.input \o input.v,
                                                     location |-> p.lexer.location]])>>),
           LAMBDA result :
         Let(IF result.t # "EOF"
             THEN Throw(result.p, "Invalid location of '", result.p.token.text)
             ELSE result.p, LAMBDA p2 :
           [p |-> p2, ok |-> ~Thrown(p2),
            tree |-> IF Thrown(p2) THEN False ELSE flatten(result.r),
            err |-> p2.err]))

\* textToAst.convert, on a fresh or used instance p: the instance after the
\* call and the outcome, a tree returned or an error thrown
convert(p, input) ==
  IF input.type # "string"
  THEN Let(Throw([p EXCEPT !.err = NoError], "Input must be a string", <<>>), LAMBDA q :
         [p |-> q, ok |-> FALSE, tree |-> False, err |-> q.err])
  ELSE Let(production("statement_list",
                      <<Advance([p EXCEPT !.err = NoError, !.lexer = set_input(input.v)])>>),
           LAMBDA result :
         Let(IF result.t # "EOF"
             THEN Throw(result.p, "Invalid location of '", result.p.token.text)
             ELSE result.p, LAMBDA p2 :
           [p |-> p2, ok |-> ~Thrown(p2),
            tree |-> IF Thrown(p2) THEN False ELSE flatten(result.r),
            err |-> p2.err]))

\* new textToAst(options)
textToAst(options) ==
  [allowSimplifiedFunctionApplication |-> options.allowSimplifiedFunctionApplication,
   splitSymbols |-> options.splitSymbols,
   unsplitSymbols |-> options.unsplitSymbols,
   appliedFunctionSymbols |-> options.appliedFunctionSymbols,
   functionSymbols |-> options.functionSymbols,
   token_rules |-> "text_rules",
   lexer |-> [input |-> <<>>, location |-> 0],
   token |-> Token("EOF", Undefined),
   err |-> NoError]

\* new latexToAst(options)
latexToAst(options) ==
  [allowSimplifiedFunctionApplication |-> options.allowSimplifiedFunctionApplication,
   allowedLatexSymbols |-> options.allowedLatexSymbols,
   appliedFunctionSymbols |-> options.appliedFunctionSymbols,
   functionSymbols |-> options.functionSymbols,
   token_rules |-> "latex_rules",
   lexer |-> [input |-> <<>>, location |-> 0],
   token |-> Token("EOF", Undefined),
   err |-> NoError]

(***************************************************************************)
(* src/src/ast-to-text.js: class astToText.  A printer a is the record of  *)
(* its field output_unicode.  The strings it builds are character          *)
(* sequences; a number is rendered by Number.prototype.toString wherever   *)
(* the source concatenates, joins or calls toString().  An Error thrown    *)
(* (or the TypeError of reading an element of undefined) is the character  *)
(* ThrownMark inside the string built, which convert turns into the        *)
(* outcome "thrown".                                                        *)
(***************************************************************************)
ThrownMark == "#Error"

ThrowError == <<ThrownMark>>

RECURSIVE Join(_, _)
\* Array.prototype.join
Join(strs, sep) ==
  IF Len(strs) = 0 THEN <<>>
  ELSE IF Len(strs) = 1 THEN strs[1]
  ELSE strs[1] \o sep \o Join(Drop(2, strs), sep)

\* operands[i] of an array of strings, "undefined" past its end
At(strs, i) == IF i <= Len(strs) THEN strs[i] ELSE Undefined

\* the operators that unicode_operators and nonunicode_operators both hold
OperatorNames ==
  {<<"+">>, <<"-">>, <<"*">>, <<"/">>, <<"_">>, <<"^">>, S.prime, S.tuple,
   S.array, S.list, S.set, S.vector, S.interval, S.and, S.or, S.not,
   <<"=">>, <<"<">>, <<">">>, S.lts, S.gts, S.le, S.ge, S.ne, S.in, S.notin,
   S.ni, S.notni, S.subset, S.notsubset, S.superset, S.notsuperset,
   S.union, S.intersect}

\* the infix text of the operators that differ between unicode_operators
\* and nonunicode_operators
Infix(a, operator) ==
  IF a.output_unicode
  THEN CASE operator = S.le -> <<"U+2264">> [] operator = S.ge -> <<"U+2265">>
         [] operator = S.ne -> <<"U+2260">> [] operator = S.in -> <<"U+2208">>
         [] operator = S.notin -> <<"U+2209">> [] operator = S.ni -> <<"U+220B">>
         [] operator = S.notni -> <<"U+220C">> [] operator = S.subset -> <<"U+2282">>
         [] operator = S.notsubset -> <<"U+2284">> [] operator = S.superset -> <<"U+2283">>
         [] operator = S.notsuperset -> <<"U+2285">> [] operator = S.union -> <<"U+222A">>
         [] operator = S.intersect -> <<"U+2229">>
  ELSE CASE operator = S.le -> <<"<", "=">> [] operator = S.ge -> <<">", "=">>
         [] operator = S.ne -> S.ne
         [] operator = S.in -> <<"e", "l", "e", "m", "e", "n", "t", "o", "f">>
         [] operator = S.notin -> S.not \o <<"e", "l", "e", "m", "e", "n", "t", "o", "f">>
         [] operator = S.ni ->
              <<"c", "o", "n", "t", "a", "i", "n", "s", "e", "l", "e", "m", "e", "n", "t">>
         [] operator = S.notni ->
              S.not \o <<"c", "o", "n", "t", "a", "i", "n", "s", "e", "l", "e", "m", "e", "n", "t">>
         [] operator = S.subset -> S.subset [] operator = S.notsubset -> S.notsubset
         [] operator = S.superset -> S.superset
         [] operator = S.notsuperset -> S.notsuperset
         [] operator = S.union -> S.union [] operator = S.intersect -> S.intersect

\* this.operators[operator](operands), operands an array of strings
ApplyOperator(a, operator, operands) ==
  CASE operator \in {<<"+">>, <<"*">>} -> Join(operands, <<" ">>)
    [] operator = <<"-">> -> <<"-", " ">> \o At(operands, 1)
    [] operator \in {<<"/">>, <<"_">>, <<"^">>} ->
         At(operands, 1) \o operator \o At(operands, 2)
    [] operator = S.prime -> At(operands, 1) \o <<"'">>
    [] operator \in {S.tuple, S.vector, S.interval} ->
         <<"(", " ">> \o Join(operands, <<",", " ">>) \o <<" ", ")">>
    [] operator = S.array -> <<"[", " ">> \o Join(operands, <<",", " ">>) \o <<" ", "]">>
    [] operator = S.set -> <<"{", " ">> \o Join(operands, <<",", " ">>) \o <<" ", "}">>
    [] operator = S.list -> Join(operands, <<",", " ">>)
    [] operator \in {S.and, S.or} -> Join(operands, <<" ">> \o operator \o <<" ">>)
    [] operator = S.not -> S.not \o <<" ">> \o At(operands, 1)
    [] operator \in {<<"=">>, <<"<">>, <<">">>} ->
         Join(operands, <<" ">> \o operator \o <<" ">>)
    [] operator = S.lts -> Join(operands, <<" ", "<", " ">>)
    [] operator = S.gts -> Join(operands, <<" ", ">", " ">>)
    [] operator \in {S.le, S.ge, S.ne, S.union, S.intersect} ->
         Join(operands, <<" ">> \o Infix(a, operator) \o <<" ">>)
    [] operator \in {S.in, S.notin, S.ni, S.notni, S.subset, S.notsubset,
                     S.superset, S.notsuperset} ->
         At(operands, 1) \o <<" ">> \o Infix(a, operator) \o <<" ">> \o At(operands, 2)

\* result.toString().match(/ /)
HasSpace(str) == \E i \in 1..Len(str) : str[i] = " "

\* result.toString().match(/^\(.*\)$/)
InParentheses(str) == Len(str) >= 2 /\ str[1] = "(" /\ str[Len(str)] = ")"

Parenthesize(str) == <<"(">> \o str \o <<")">>

\* for clarity, add parenthesis unless result is single quantity (with no
\* spaces) or already has parens
ForClarity(result) ==
  IF HasSpace(result) /\ ~InParentheses(result) THEN Parenthesize(result) ELSE result

\* tree[i] of a tree that is an array, i counted from 0; undefined (False)
\* past its end and for a tree that is no array (a string's characters are
\* never compared equal to an operator by the source)
Element(tree, i) ==
  IF IsArray(tree) /\ i + 1 <= Len(tree.elems) THEN tree.elems[i + 1] ELSE False

\* ToBoolean of an element read from a tree
Truthy(tree) ==
  CASE tree.k = "boolean" -> tree.bool
    [] tree.k = "string" -> Len(tree.str) > 0
    [] tree.k = "number" -> tree.num[1] # 0
    [] tree.k = "array" -> TRUE
    [] OTHER -> FALSE

\* the entry of symbolConversions for a symbol, <<>> when there is none
Conversion(symbol) ==
  LET hits == {i \in 1..Len(symbolConversions) : symbolConversions[i][1] = symbol}
  IN IF hits = {} THEN <<>> ELSE symbolConversions[CHOOSE i \in hits : TRUE][2]

symbolConvert(a, symbol) ==
  IF a.output_unicode /\ Conversion(symbol) # <<>> THEN Conversion(symbol) ELSE symbol

RECURSIVE RemovePrimes(_)
\* while (remove_primes[0] == 'prime') remove_primes = remove_primes[1]
RemovePrimes(tree) ==
  IF HasOperator(tree, S.prime) THEN RemovePrimes(Element(tree, 1)) ELSE tree

RECURSIVE CountPrimes(_)
\* n_primes of the branch "prime" of factor, for its operand op
CountPrimes(op) ==
  IF HasOperator(op, S.prime) THEN 1 + CountPrimes(Element(op, 1)) ELSE 1

Primes(n) == [i \in 1..n |-> "'"]

\* remove_primes[0] == '_' && typeof remove_primes[1] == 'string'
SubscriptedString(tree) ==
  HasOperator(tree, <<"_">>) /\ Element(tree, 1).k = "string"

RECURSIVE method(_, _)

\* astToText.statement
print_statement(a, tree) ==
  IF tree.k \in {"string", "number"} THEN method("single_statement", <<a, tree>>)
  ELSE IF ~IsArray(tree) \/ Element(tree, 0).k # "string" THEN ThrowError
  ELSE LET operator == tree.elems[1].str
           operands == Operands(tree)
       IN IF operator \notin OperatorNames /\ operator # S.apply
          THEN ThrowError
          ELSE IF operator = S.and \/ operator = S.or
          THEN ApplyOperator(a, operator,
                 [i \in 1..Len(operands) |-> ForClarity(method("single_statement", <<a, operands[i]>>))])
          ELSE method("single_statement", <<a, tree>>)

\* single_statement: the loop  for(var i=1; i< args.length-1; i++)  of the
\* branch of lts and gts
inequalities(a, operator, args, strict, i) ==
  IF i >= Len(args.elems) - 1 THEN <<>>
  ELSE (IF Truthy(Element(strict, i))
        THEN (IF operator = S.lts THEN <<" ", "<", " ">> ELSE <<" ", ">", " ">>)
        ELSE <<" ">> \o Infix(a, IF operator = S.lts THEN S.le ELSE S.ge) \o <<" ">>)
       \o method("print_expression", <<a, Element(args, i + 1)>>)
       \o method("inequalities", <<a, operator, args, strict, i + 1>>)

single_statement(a, tree) ==
  IF tree.k \in {"string", "number"} THEN method("print_expression", <<a, tree>>)
  ELSE IF ~IsArray(tree) \/ Element(tree, 0).k # "string" THEN ThrowError
  ELSE LET operator == tree.elems[1].str
           operands == Operands(tree)
           args   == Element(tree, 1)
           strict == Element(tree, 2)
       IN IF operator = S.not
          THEN ApplyOperator(a, operator,
                 [i \in 1..Len(operands) |-> ForClarity(method("single_statement", <<a, operands[i]>>))])
          ELSE IF operator \in {<<"=">>, S.ne, <<"<">>, <<">">>, S.le, S.ge, S.in, S.notin,
                                S.ni, S.notni, S.subset, S.notsubset, S.superset,
                                S.notsuperset}
          THEN ApplyOperator(a, operator,
                 [i \in 1..Len(operands) |-> method("print_expression", <<a, operands[i]>>)])
          ELSE IF operator = S.lts \/ operator = S.gts
          THEN IF ~HasOperator(args, S.tuple) \/ ~HasOperator(strict, S.tuple)
               THEN ThrowError
               ELSE method("print_expression", <<a, Element(args, 1)>>)
                    \o method("inequalities", <<a, operator, args, strict, 1>>)
          ELSE method("print_expression", <<a, tree>>)

\* astToText.expression
print_expression(a, tree) ==
  IF ~IsArray(tree) THEN method("print_term", <<a, tree>>)
  ELSE LET operator == Element(tree, 0).str
           operands == Operands(tree)
       IN IF operator = <<"+">>
          THEN ApplyOperator(a, operator,
                 [i \in 1..Len(operands) |->
                    IF i > 1 THEN method("termWithPlusIfNotNegated", <<a, operands[i]>>)
                             ELSE method("print_term", <<a, operands[i]>>)])
          ELSE IF operator = S.union \/ operator = S.intersect
          THEN ApplyOperator(a, operator,
                 [i \in 1..Len(operands) |-> method("print_term", <<a, operands[i]>>)])
          ELSE method("print_term", <<a, tree>>)

\* astToText.term
print_term(a, tree) ==
  IF ~IsArray(tree) THEN method("print_factor", <<a, tree>>)
  ELSE LET operator == Element(tree, 0).str
           operands == Operands(tree)
       IN IF operator = <<"-">>
          THEN ApplyOperator(a, operator,
                 [i \in 1..Len(operands) |-> method("print_term", <<a, operands[i]>>)])
          ELSE IF operator = <<"*">>
          THEN ApplyOperator(a, operator,
                 [i \in 1..Len(operands) |->
                    IF i > 1
                    THEN LET result == method("factorWithParenthesesIfNegated", <<a, operands[i]>>)
                         IN IF Len(result) >= 1 /\ result[1] \in Digits
                            THEN <<"*", " ">> \o result ELSE result
                    ELSE method("print_factor", <<a, operands[i]>>)])
          ELSE IF operator = <<"/">>
          THEN ApplyOperator(a, operator,
                 [i \in 1..Len(operands) |-> method("print_factor", <<a, operands[i]>>)])
          ELSE method("print_factor", <<a, tree>>)

simple_factor_or_function_or_parens(a, tree) ==
  LET result == method("print_factor", <<a, tree>>)
  IN \/ Len(result) = 1
     \/ tree.k = "number"
     \/ tree.k = "string"
     \/ HasOperator(tree, S.apply)
     \/ InParentheses(result)

\* astToText.factor
print_factor(a, tree) ==
  IF tree.k = "string" THEN symbolConvert(a, tree.str)
  ELSE IF tree.k = "number" THEN NumberToString(tree.num)
  ELSE IF ~IsArray(tree) THEN ThrowError
  ELSE
    LET operator == Element(tree, 0).str
        operands == Operands(tree)
        operand0 == method("print_factor", <<a, Element(tree, 1)>>)
        remove_primes == RemovePrimes(Element(tree, 1))
        operand1 == method("print_factor", <<a, Element(tree, 2)>>)
        op == RemovePrimes(Element(tree, 1))
        args   == Element(tree, 1)
        closed == Element(tree, 2)
        f_args == method("print_statement", <<a, Element(tree, 2)>>)
    IN IF operator = <<"^">>
       THEN (IF ~(\/ method("simple_factor_or_function_or_parens", <<a, remove_primes>>)
                  \/ SubscriptedString(remove_primes))
             THEN Parenthesize(operand0) ELSE operand0)
            \o <<"^">>
            \o (IF ~method("simple_factor_or_function_or_parens", <<a, Element(tree, 2)>>)
                THEN Parenthesize(operand1) ELSE operand1)
       ELSE IF operator = <<"_">>
       THEN ApplyOperator(a, operator,
              [i \in 1..Len(operands) |->
                 IF method("simple_factor_or_function_or_parens", <<a, operands[i]>>)
                 THEN method("print_factor", <<a, operands[i]>>)
                 ELSE Parenthesize(method("print_factor", <<a, operands[i]>>))])
       ELSE IF operator = S.prime
       THEN (IF ~(\/ method("simple_factor_or_function_or_parens", <<a, op>>)
                  \/ SubscriptedString(op))
             THEN Parenthesize(method("print_factor", <<a, op>>)) ELSE method("print_factor", <<a, op>>))
            \o Primes(CountPrimes(Element(tree, 1)))
       ELSE IF operator = <<"-">>
       THEN ApplyOperator(a, operator,
              [i \in 1..Len(operands) |-> method("print_factor", <<a, operands[i]>>)])
       ELSE IF operator \in {S.tuple, S.array, S.list, S.set, S.vector}
       THEN ApplyOperator(a, operator,
              [i \in 1..Len(operands) |-> method("print_statement", <<a, operands[i]>>)])
       ELSE IF operator = S.interval
       THEN IF ~HasOperator(args, S.tuple) \/ ~HasOperator(closed, S.tuple)
            THEN ThrowError
            ELSE (IF Truthy(Element(closed, 1)) THEN <<"[", " ">> ELSE <<"(", " ">>)
                 \o method("print_statement", <<a, Element(args, 1)>>) \o <<",", " ">>
                 \o method("print_statement", <<a, Element(args, 2)>>)
                 \o (IF Truthy(Element(closed, 2)) THEN <<" ", "]">> ELSE <<" ", ")">>)
       ELSE IF operator = S.apply
       THEN IF Element(tree, 1) = Str(S.abs)
            THEN <<"|">> \o method("print_statement", <<a, Element(tree, 2)>>) \o <<"|">>
            ELSE IF Element(tree, 1) = Str(S.factorial)
            THEN IF \/ method("simple_factor_or_function_or_parens", <<a, Element(tree, 2)>>)
                    \/ SubscriptedString(Element(tree, 2))
                 THEN operand1 \o <<"!">>
                 ELSE Parenthesize(operand1) \o <<"!">>
            ELSE operand0
                 \o (IF ~HasOperator(Element(tree, 2), S.tuple)
                     THEN Parenthesize(f_args) ELSE f_args)
       ELSE Parenthesize(method("print_statement", <<a, tree>>))

factorWithParenthesesIfNegated(a, tree) ==
  LET result == method("print_factor", <<a, tree>>)
  IN IF Len(result) >= 1 /\ result[1] = "-" THEN Parenthesize(result) ELSE result

termWithPlusIfNotNegated(a, tree) ==
  LET result == method("print_term", <<a, tree>>)
  IN IF ~(Len(result) >= 1 /\ result[1] = "-") THEN <<"+", " ">> \o result ELSE result

\* a call of a method of the printer, by its name: this.<name>(...)
method(name, args) ==
  CASE name = "print_statement" -> print_statement(args[1], args[2])
    [] name = "inequalities" -> inequalities(args[1], args[2], args[3], args[4], args[5])
    [] name = "single_statement" -> single_statement(args[1], args[2])
    [] name = "print_expression" -> print_expression(args[1], args[2])
    [] name = "print_term" -> print_term(args[1], args[2])
    [] name = "simple_factor_or_function_or_parens" -> simple_factor_or_function_or_parens(args[1], args[2])
    [] name = "print_factor" -> print_factor(args[1], args[2])
    [] name = "factorWithParenthesesIfNegated" -> factorWithParenthesesIfNegated(args[1], args[2])
    [] name = "termWithPlusIfNotNegated" -> termWithPlusIfNotNegated(args[1], args[2])

\* new astToText(options)
astToText(options) == [output_unicode |-> options.output_unicode]

\* astToText.convert: the value returned (a number for a tree that is a
\* number, a string otherwise) or the outcome that it threw
print_convert(a, tree) ==
  LET result == method("print_statement", <<a, tree>>)
  IN IF \E i \in 1..Len(result) : result[i] = ThrownMark
     THEN [type |-> "thrown", v |-> <<>>]
     ELSE [type |-> IF tree.k = "number" THEN "number" ELSE "string", v |-> result]

(***************************************************************************)
(* The state machine.  A job is one input taken through                    *)
(*   textToAst.convert, astToText.convert, textToAst.convert on the same   *)
(*   instance, and astToText.convert again                                 *)
(* (round_trip and round_trip(round_trip(input)) of                        *)
(* src/spec/text-to-ast.spec.js), or one raw tree taken through flatten    *)
(* twice.  pc is the position of the job; out1, text1, out2, text2 are the *)
(* values the calls returned.                                              *)
(***************************************************************************)
\* the options of new textToAst() with no argument
DefaultOptions ==
  [allowSimplifiedFunctionApplication |-> TRUE,
   splitSymbols |-> TRUE,
   unsplitSymbols |-> unsplitSymbolsDefault,
   appliedFunctionSymbols |-> appliedFunctionSymbolsDefault,
   functionSymbols |-> functionSymbolsDefault]

RECURSIVE Concat(_)
\* the pieces of an input, written one after the other
Concat(parts) ==
  IF Len(parts) = 0 THEN <<>> ELSE parts[1] \o Concat(Drop(2, parts))

RECURSIVE JoinWith(_, _)
\* the pieces of an input, with sep between two of them
JoinWith(parts, sep) ==
  IF Len(parts) = 0 THEN <<>>
  ELSE IF Len(parts) = 1 THEN parts[1]
  ELSE parts[1] \o sep \o JoinWith(Drop(2, parts), sep)

\* every sequence of lo..hi members of the set V
SeqsOf(V, lo, hi) == UNION {[1..k -> V] : k \in lo..hi}

NotRun == [ok |-> FALSE, tree |-> False, err |-> NoError, p |-> textToAst(DefaultOptions)]

NoText == [type |-> "none", v |-> <<>>]

\* a job that starts from a string
Job(family, options, parts, input) ==
  [family |-> family, options |-> options, output_unicode |-> TRUE,
   parts |-> parts, input |-> input, raw |-> False]

\* a job that starts from the tree a parser has built and not yet flattened
RawJob(family, raw) ==
  [family |-> family, options |-> DefaultOptions, output_unicode |-> TRUE,
   parts |-> <<>>, input |-> <<>>, raw |-> raw]

InitJob(jobs) ==
  /\ job \in jobs
  /\ pc = IF job.raw = False THEN "input" ELSE "raw"
  /\ out1 = NotRun
  /\ text1 = NoText
  /\ out2 = NotRun
  /\ text2 = NoText
  /\ locals = <<>>

\* converter.convert(input)
Convert ==
  /\ pc = "input"
  /\ out1' = convert(textToAst(job.options), StringValue(job.input))
  /\ pc' = IF out1'.ok THEN "tree" ELSE "rejected"
  /\ UNCHANGED <<job, locals, text1, out2, text2>>

\* converter_ast_to_text.convert(tree)
Render ==
  /\ pc = "tree"
  /\ text1' = print_convert(astToText([output_unicode |-> job.output_unicode]), out1.tree)
  /\ pc' = IF text1'.type = "thrown" THEN "unprintable" ELSE "text"
  /\ UNCHANGED <<job, locals, out1, out2, text2>>

\* converter.convert(round_trip(input)), on the instance of the first call
ConvertAgain ==
  /\ pc = "text"
  /\ out2' = convert(out1.p, text1)
  /\ pc' = IF out2'.ok THEN "tree2" ELSE "rejected2"
  /\ UNCHANGED <<job, locals, out1, text1, text2>>

\* round_trip(round_trip(input))
RenderAgain ==
  /\ pc = "tree2"
  /\ text2' = print_convert(astToText([output_unicode |-> job.output_unicode]), out2.tree)
  /\ pc' = IF text2'.type = "thrown" THEN "unprintable2" ELSE "text2"
  /\ UNCHANGED <<job, locals, out1, text1, out2>>

\* return flatten(result), the last statement of convert
Normalize ==
  /\ pc = "raw"
  /\ out1' = [NotRun EXCEPT !.ok = TRUE, !.tree = flatten(job.raw)]
  /\ pc' = "normal"
  /\ UNCHANGED <<job, locals, text1, out2, text2>>

\* flatten applied to a tree that flatten returned
NormalizeAgain ==
  /\ pc = "normal"
  /\ out2' = [NotRun EXCEPT !.ok = TRUE, !.tree = flatten(out1.tree)]
  /\ pc' = "normal2"
  /\ UNCHANGED <<job, locals, out1, text1, text2>>

\* the conversions of a job that starts from a string
TextNext == Convert \/ Render \/ ConvertAgain \/ RenderAgain

Next == Convert \/ Render \/ ConvertAgain \/ RenderAgain \/ Normalize \/ NormalizeAgain

(***************************************************************************)
(* Family "words": every string of at most MaxWords words of Words.        *)
(***************************************************************************)
MaxWords == 3

Words ==
  {<<"x">>, <<"y", "z">>, <<"2">>, <<"1", "E", "2", "1">>, <<"+">>, <<"-">>,
   <<"^">>, <<"/">>, <<"(", "x", "-", "1", ")">>, <<"(", "|", "x", "|", ")">>,
   <<"s", "i", "n">>, <<"d", "x">>}

WordJobs(max) ==
  {Job("words", DefaultOptions, parts, Concat(parts)) : parts \in SeqsOf(Words, 1, max)}

(***************************************************************************)
(* Family "group": 2..MaxOperands operands joined by one operator, each    *)
(* operand x, or y and z joined by the same operator inside one of the     *)
(* three pairs of brackets, or (y-z); the whole bare or inside one of the  *)
(* three pairs of brackets.                                                *)
(***************************************************************************)
MaxOperands == 2

GroupOperators == {<<"*">>, <<"+">>, <<",">>, <<" ", "a", "n", "d", " ">>,
   <<" ", "o", "r", " ">>}

Brackets == {<<<<"(">>, <<")">>>>, <<<<"[">>, <<"]">>>>, <<<<"{">>, <<"}">>>>}

GroupOperands(operator) ==
  {<<"x">>, <<"(", "y", "-", "z", ")">>}
  \cup {b[1] \o <<"y">> \o operator \o <<"z">> \o b[2] : b \in Brackets}

GroupInputs(max) ==
  UNION {
    UNION {
      {b[1] \o JoinWith(operands, operator) \o b[2] : b \in Brackets \cup {<<<<>>, <<>>>>}}
      : operands \in SeqsOf(GroupOperands(operator), 2, max)}
    : operator \in GroupOperators}

GroupJobs(max) == {Job("group", DefaultOptions, <<input>>, input) : input \in GroupInputs(max)}

(***************************************************************************)
(* Family "raw": the trees statement_list builds for the inputs of family  *)
(* "group", and the trees the matrix environments of                       *)
(* src/src/latex-to-ast.js build from 1..MaxRows rows.                     *)
(***************************************************************************)
\* the tree convert has before it calls flatten: statement_list's result
raw_tree(p, input) ==
  Let(production("statement_list",
                 <<Advance([p EXCEPT !.lexer = set_input(input), !.err = NoError])>>),
      LAMBDA result :
        IF Thrown(result.p) \/ result.t # "EOF" THEN False ELSE result.r)

MaxRows == 2

\* rows as the matrix loop collects them: the entries already parsed
MatrixRows ==
  {<<>>, <<Str(<<"a">>)>>, <<Str(<<"a">>), Num(<<1, 0>>)>>,
   <<Node(S.tuple, <<Str(<<"a">>), Str(<<"b">>)>>), Str(<<"c">>)>>,
   <<Str(<<"a">>), Node(<<"+">>, <<Node(<<"+">>, <<Str(<<"b">>), Str(<<"c">>)>>), Str(<<"d">>)>>)>>}

RawJobs(max_operands, max_rows) ==
  {RawJob("raw", raw_tree(textToAst(DefaultOptions), input)) :
     input \in {i \in GroupInputs(max_operands) : raw_tree(textToAst(DefaultOptions), i) # False}}
  \cup {RawJob("matrix", matrix(all_rows)) : all_rows \in SeqsOf(MatrixRows, 1, max_rows)}

Init ==
  InitJob(WordJobs(MaxWords) \cup GroupJobs(MaxOperands) \cup RawJobs(MaxOperands, MaxRows))

Spec == Init /\ [][Next]_vars

\* the families "group" and "raw" alone
InitGroup == InitJob(GroupJobs(MaxOperands) \cup RawJobs(MaxOperands, MaxRows))

SpecGroup == InitGroup /\ [][Next]_vars


(***************************************************************************)
(* Family "sum": 2..MaxTerms terms of SumTerms, a + or a - before each     *)
(* term but the first.  tree is the tree the term parses to on its own.    *)
(***************************************************************************)
MaxTerms == 3

SumTerms ==
  {[text |-> <<"1">>, tree |-> Num(Decimal(1, 0))],
   [text |-> <<"x">>, tree |-> Str(<<"x">>)],
   [text |-> <<"2", "y">>, tree |-> Node(<<"*">>, <<Num(Decimal(2, 0)), Str(<<"y">>)>>)],
   [text |-> <<"-", "y">>, tree |-> Node(<<"-">>, <<Str(<<"y">>)>>)],
   [text |-> <<"(", "x", "+", "3", ")">>,
    tree |-> Node(<<"+">>, <<Str(<<"x">>), Num(Decimal(3, 0))>>)]}

\* a term and the sign written before it
SignedTerms ==
  {[sign |-> sign, term |-> t] : sign \in {<<"+">>, <<"-">>}, t \in SumTerms}

SumParts ==
  {<<[sign |-> <<>>, term |-> first]>> \o rest :
     first \in SumTerms, rest \in SeqsOf(SignedTerms, 1, MaxTerms - 1)}

SumInput(parts) == Concat([i \in 1..Len(parts) |-> parts[i].sign \o parts[i].term.text])

SumJobs == {Job("sum", DefaultOptions, parts, SumInput(parts)) : parts \in SumParts}

InitSum == InitJob(SumJobs)

SpecSum == InitSum /\ [][TextNext]_vars

(***************************************************************************)
(* Family "relations": the operands x, y, z, ... with 1..MaxRelations      *)
(* relations of Relations between them.  dir is the direction of the       *)
(* relation, op the operator of the binary node it builds.                 *)
(***************************************************************************)
MaxRelations == 3

Relations ==
  {[text |-> <<"<">>, op |-> <<"<">>, dir |-> "lt", strict |-> TRUE],
   [text |-> <<"<", "=">>, op |-> S.le, dir |-> "lt", strict |-> FALSE],
   [text |-> <<">">>, op |-> <<">">>, dir |-> "gt", strict |-> TRUE],
   [text |-> <<">", "=">>, op |-> S.ge, dir |-> "gt", strict |-> FALSE],
   [text |-> <<"=">>, op |-> <<"=">>, dir |-> "eq", strict |-> TRUE]}

\* the i-th operand of a chain
RelationOperand(i) == <<<<"x", "y", "z", "w", "u", "v", "s", "t", "a", "b", "c">>[i]>>

RelationInput(parts) ==
  RelationOperand(1)
  \o Concat([i \in 1..Len(parts) |-> parts[i].text \o RelationOperand(i + 1)])

RelationJobs ==
  {Job("relations", DefaultOptions, parts, RelationInput(parts)) :
     parts \in SeqsOf(Relations, 1, MaxRelations)}

InitRelations == InitJob(RelationJobs)

SpecRelations == InitRelations /\ [][TextNext]_vars

(***************************************************************************)
(* Family "primaries": 2..MaxPrimaries primaries of Primaries, written     *)
(* with a space between two of them, or with nothing between them where    *)
(* the lexer still reads the same tokens.                                  *)
(***************************************************************************)
MaxPrimaries == 3

Primaries ==
  {[text |-> <<"2">>, tree |-> Num(Decimal(2, 0))],
   [text |-> <<"x">>, tree |-> Str(<<"x">>)],
   [text |-> <<"(", "x", "+", "1", ")">>,
    tree |-> Node(<<"+">>, <<Str(<<"x">>), Num(Decimal(1, 0))>>)],
   [text |-> <<"f", "(", "x", ")">>, tree |-> Node(S.apply, <<Str(<<"f">>), Str(<<"x">>)>>)],
   [text |-> <<"x", "^", "2">>, tree |-> Node(<<"^">>, <<Str(<<"x">>), Num(Decimal(2, 0))>>)],
   [text |-> <<"y", "!">>, tree |-> Node(S.apply, <<Str(S.factorial), Str(<<"y">>)>>)],
   [text |-> <<"x", "_", "1">>, tree |-> Node(<<"_">>, <<Str(<<"x">>), Num(Decimal(1, 0))>>)]}

\* the texts left and right written one after the other are the tokens of
\* left followed by the tokens of right
TokensKept(left, right) ==
  \/ left[Len(left)] \notin WordChars
  \/ right[1] \notin WordChars
  \/ left[Len(left)] \in Digits /\ right[1] \in Letters \ {"E"}

PrimaryParts ==
  {[sep |-> sep, primaries |-> primaries] :
     sep \in {<<" ">>, <<>>}, primaries \in SeqsOf(Primaries, 2, MaxPrimaries)}

PrimaryTexts(parts) == [i \in 1..Len(parts.primaries) |-> parts.primaries[i].text]

PrimaryJobs ==
  {Job("primaries", DefaultOptions, parts, JoinWith(PrimaryTexts(parts), parts.sep)) :
     parts \in {q \in PrimaryParts :
                  q.sep = <<>> => \A i \in 1..(Len(q.primaries) - 1) :
                    TokensKept(q.primaries[i].text, q.primaries[i + 1].text)}}

InitPrimaries == InitJob(PrimaryJobs)

SpecPrimaries == InitPrimaries /\ [][TextNext]_vars

(***************************************************************************)
(* Family "identifier": one identifier, a 2 before it or nothing, ^2       *)
(* after it or nothing, parsed with splitSymbols true or false and with    *)
(* the default unsplitSymbols or with ['xy'].  The identifiers are the     *)
(* strings of at most MaxIdentLen characters of IdentChars that start with *)
(* a letter, pi, and the Greek letter mu (U+03BC), which the lexer reads   *)
(* as the VARMULTICHAR token mu.  text is what the input holds, name the   *)
(* text of the token.                                                      *)
(***************************************************************************)
MaxIdentLen == 3

IdentChars == {"x", "y", "2"}

Identifiers ==
  {[text |-> str, name |-> str] :
     str \in {s \in SeqsOf(IdentChars, 1, MaxIdentLen) : s[1] \notin Digits} \cup {<<"p", "i">>}}
  \cup {[text |-> <<"U+03BC">>, name |-> <<"m", "u">>]}

IdentifierParts ==
  {[pre |-> pre, ident |-> ident, post |-> post] :
     pre \in {<<>>, <<"2">>}, ident \in Identifiers, post \in {<<>>, <<"^", "2">>}}

IdentifierOptions ==
  {[DefaultOptions EXCEPT !.splitSymbols = splitSymbols, !.unsplitSymbols = unsplitSymbols] :
     splitSymbols \in BOOLEAN, unsplitSymbols \in {unsplitSymbolsDefault, <<<<"x", "y">>>>}}

IdentifierJobs ==
  {Job("identifier", options, parts, parts.pre \o parts.ident.text \o parts.post) :
     options \in IdentifierOptions, parts \in IdentifierParts}

InitIdentifier == InitJob(IdentifierJobs)

SpecIdentifier == InitIdentifier /\ [][TextNext]_vars

(***************************************************************************)
(* Family "application": an applied function name, an optional subscript,  *)
(* prime and exponent, and an argument written without parentheses (or,    *)
(* for comparison, in parentheses), parsed with                            *)
(* allowSimplifiedFunctionApplication true or false.  tree is the tree of  *)
(* the argument, rest the tree of what follows the argument as a factor of *)
(* the same term (False when nothing follows).                             *)
(***************************************************************************)
AppliedNames == {<<"s", "i", "n">>, <<"l", "o", "g">>}

Modifiers ==
  {[text |-> <<>>, subscript |-> FALSE, primes |-> FALSE, exponent |-> FALSE],
   [text |-> <<"_", "2">>, subscript |-> TRUE, primes |-> FALSE, exponent |-> FALSE],
   [text |-> <<"'">>, subscript |-> FALSE, primes |-> TRUE, exponent |-> FALSE],
   [text |-> <<"^", "2">>, subscript |-> FALSE, primes |-> FALSE, exponent |-> TRUE],
   [text |-> <<"_", "2", "'", "^", "2">>, subscript |-> TRUE, primes |-> TRUE, exponent |-> TRUE]}

Arguments ==
  {[text |-> <<" ", "x">>, bare |-> TRUE, tree |-> Str(<<"x">>), rest |-> False],
   [text |-> <<" ", "2">>, bare |-> TRUE, tree |-> Num(Decimal(2, 0)), rest |-> False],
   [text |-> <<" ", "-", "x">>, bare |-> TRUE, tree |-> Node(<<"-">>, <<Str(<<"x">>)>>), rest |-> False],
   [text |-> <<" ", "x", "^", "2">>, bare |-> TRUE,
    tree |-> Node(<<"^">>, <<Str(<<"x">>), Num(Decimal(2, 0))>>), rest |-> False],
   [text |-> <<" ", "x", "y">>, bare |-> TRUE, tree |-> Str(<<"x">>), rest |-> Str(<<"y">>)],
   [text |-> <<"(", "x", ")">>, bare |-> FALSE, tree |-> Str(<<"x">>), rest |-> False]}

ApplicationParts ==
  {[name |-> name, mods |-> mods, arg |-> arg] :
     name \in AppliedNames, mods \in Modifiers, arg \in Arguments}

ApplicationJobs ==
  {Job("application", [DefaultOptions EXCEPT !.allowSimplifiedFunctionApplication = allow],
       parts, parts.name \o parts.mods.text \o parts.arg.text) :
     allow \in BOOLEAN, parts \in ApplicationParts}

InitApplication == InitJob(ApplicationJobs)

SpecApplication == InitApplication /\ [][TextNext]_vars

(***************************************************************************)
(* Jobs of the LaTeX parser: one input taken through latexToAst.convert    *)
(* and, when a tree comes back, astToText.convert.                         *)
(***************************************************************************)
\* the options of new latexToAst() with no argument
LatexDefaultOptions ==
  [allowSimplifiedFunctionApplication |-> TRUE,
   allowedLatexSymbols |-> allowedLatexSymbolsDefault,
   appliedFunctionSymbols |-> appliedFunctionSymbolsDefault,
   functionSymbols |-> functionSymbolsDefault]

\* a job that starts from a LaTeX string
LatexJob(family, options, parts, input) ==
  [family |-> family, options |-> options, output_unicode |-> TRUE,
   parts |-> parts, input |-> input, raw |-> False, latex |-> TRUE]

InitLatexJob(jobs) ==
  /\ job \in jobs
  /\ pc = IF "latex" \in DOMAIN job THEN "latex" ELSE "input"
  /\ out1 = NotRun
  /\ text1 = NoText
  /\ out2 = NotRun
  /\ text2 = NoText
  /\ locals = <<>>

\* latex_converter.convert(input)
ConvertLatex ==
  /\ pc = "latex"
  /\ out1' = convert(latexToAst(job.options), StringValue(job.input))
  /\ pc' = IF out1'.ok THEN "tree" ELSE "rejected"
  /\ UNCHANGED <<job, locals, text1, out2, text2>>

\* the conversions of a job of either parser, up to the text of its tree
ParseNext == Convert \/ ConvertLatex \/ Render

\* the conversions of a job of the LaTeX parser
LatexNext == ConvertLatex \/ Render

(***************************************************************************)
(* Family "precedence": two operators of different levels of the grammar   *)
(* written without brackets, in the text and in the LaTeX notation:        *)
(*   binary   a op1 b op2 c                                                *)
(*   prefix   pre a op b          pre one of not and the unary minus       *)
(*   after    a op b !            before   a ! op b                        *)
(* level is the place of the operator in the chain of productions          *)
(* statement_list, statement, statement2, relation, expression, term,      *)
(* factor, nonMinusFactor; the operator written as nothing is the implicit *)
(* multiplication.                                                         *)
(***************************************************************************)
BinaryOperators ==
  {[level |-> 1, text |-> <<",">>, latex |-> <<",">>, tag |-> S.list, minus |-> FALSE],
   [level |-> 2, text |-> <<"o", "r">>, latex |-> <<"\\", "l", "o", "r">>, tag |-> <<"o", "r">>, minus |-> FALSE],
   [level |-> 3, text |-> <<"a", "n", "d">>, latex |-> <<"\\", "l", "a", "n", "d">>, tag |-> <<"a", "n", "d">>, minus |-> FALSE],
   [level |-> 4, text |-> <<"=">>, latex |-> <<"=">>, tag |-> <<"=">>, minus |-> FALSE],
   [level |-> 4, text |-> <<"<">>, latex |-> <<"<">>, tag |-> <<"<">>, minus |-> FALSE],
   [level |-> 5, text |-> <<"+">>, latex |-> <<"+">>, tag |-> <<"+">>, minus |-> FALSE],
   [level |-> 5, text |-> <<"-">>, latex |-> <<"-">>, tag |-> <<"+">>, minus |-> TRUE],
   [level |-> 6, text |-> <<"*">>, latex |-> <<"\\", "c", "d", "o", "t">>, tag |-> <<"*">>, minus |-> FALSE],
   [level |-> 6, text |-> <<>>, latex |-> <<>>, tag |-> <<"*">>, minus |-> FALSE],
   [level |-> 6, text |-> <<"/">>, latex |-> <<"/">>, tag |-> <<"/">>, minus |-> FALSE],
   [level |-> 8, text |-> <<"^">>, latex |-> <<"^">>, tag |-> <<"^">>, minus |-> FALSE]}

PrefixOperators ==
  {[level |-> 4, text |-> <<"n", "o", "t">>, latex |-> <<"\\", "l", "n", "o", "t">>, tag |-> S.not],
   [level |-> 7, text |-> <<"-">>, latex |-> <<"-">>, tag |-> <<"-">>]}

\* the three operands of an input, as written and as parsed
OperandTriples ==
  {[text |-> <<<<"a">>, <<"b">>, <<"c">>>>,
    tree |-> <<Str(<<"a">>), Str(<<"b">>), Str(<<"c">>)>>],
   [text |-> <<<<"1">>, <<"x">>, <<"2">>>>,
    tree |-> <<Num(Decimal(1, 0)), Str(<<"x">>), Num(Decimal(2, 0))>>]}

Flavours == {"text", "latex"}

PrecedenceParts ==
  {[shape |-> "binary", flavour |-> f, operands |-> o, first |-> ops[1], second |-> ops[2]] :
     f \in Flavours, o \in OperandTriples,
     ops \in {ops \in BinaryOperators \X BinaryOperators : ops[1].level # ops[2].level}}
  \cup
  {[shape |-> "prefix", flavour |-> f, operands |-> o, first |-> pre, second |-> op] :
     f \in Flavours, o \in OperandTriples, pre \in PrefixOperators, op \in BinaryOperators}
  \cup
  {[shape |-> shape, flavour |-> f, operands |-> o, first |-> op, second |-> op] :
     shape \in {"after", "before"}, f \in Flavours, o \in OperandTriples,
     op \in {op \in BinaryOperators : op.level < 8}}

\* the words of an input, which one space separates
PrecedenceWords(parts) ==
  LET o == parts.operands.text
      w1 == parts.first[parts.flavour]
      w2 == parts.second[parts.flavour]
  IN CASE parts.shape = "binary" -> <<o[1], w1, o[2], w2, o[3]>>
       [] parts.shape = "prefix" -> <<w1, o[1], w2, o[2]>>
       [] parts.shape = "after" -> <<o[1], w2, o[2], <<"!">>>>
       [] OTHER -> <<o[1], <<"!">>, w2, o[2]>>

PrecedenceJobs ==
  {IF parts.flavour = "latex"
   THEN LatexJob("precedence", LatexDefaultOptions, parts, JoinWith(PrecedenceWords(parts), <<" ">>))
   ELSE Job("precedence", DefaultOptions, parts, JoinWith(PrecedenceWords(parts), <<" ">>)) :
     parts \in PrecedenceParts}

InitPrecedence == InitLatexJob(PrecedenceJobs)

SpecPrecedence == InitPrecedence /\ [][ParseNext]_vars

(***************************************************************************)
(* Family "named": one identifier and what follows it, a parenthesised     *)
(* group of one or two elements, + g, or nothing; parsed with the default  *)
(* options and with functionSymbols ['F'] and appliedFunctionSymbols       *)
(* ['sin', 'k'].  arg is the tree of the group.                            *)
(***************************************************************************)
NamedIdentifiers ==
  {<<"f">>, <<"g">>, <<"x">>, <<"x", "y">>, <<"x", "f">>, <<"f", "x">>,
   <<"s", "i", "n">>, <<"F">>, <<"f", "2">>, <<"p", "i">>, <<"k">>,
   <<"x", "k">>}

Followers ==
  {[text |-> <<"(", "y", ")">>, group |-> TRUE, sum |-> FALSE, arg |-> Str(<<"y">>)],
   [text |-> <<"(", "y", ",", "z", ")">>, group |-> TRUE, sum |-> FALSE,
    arg |-> Node(S.tuple, <<Str(<<"y">>), Str(<<"z">>)>>)],
   [text |-> <<"+", "g">>, group |-> FALSE, sum |-> TRUE, arg |-> False],
   [text |-> <<>>, group |-> FALSE, sum |-> FALSE, arg |-> False]}

NamedOptions ==
  {DefaultOptions,
   [DefaultOptions EXCEPT !.functionSymbols = <<<<"F">>>>,
                          !.appliedFunctionSymbols = <<<<"s", "i", "n">>, <<"k">>>>]}

NamedJobs ==
  {Job("named", options, [ident |-> ident, follower |-> follower], ident \o follower.text) :
     options \in NamedOptions, ident \in NamedIdentifiers, follower \in Followers}

InitNamed == InitJob(NamedJobs)

SpecNamed == InitNamed /\ [][TextNext]_vars

(***************************************************************************)
(* Family "postfix": 1..MaxPowers operands joined by ^, each a base        *)
(* followed by marks ! and ', at most MaxMarks marks in the input; the     *)
(* bases are taken in turn from PostfixBases, starting anywhere.           *)
(***************************************************************************)
MaxPowers == 3

MaxMarks == 2

PostfixBases ==
  <<[text |-> <<"x">>, tree |-> Str(<<"x">>)],
    [text |-> <<"2">>, tree |-> Num(Decimal(2, 0))],
    [text |-> <<"(", "a", "+", "b", ")">>, tree |-> Node(<<"+">>, <<Str(<<"a">>), Str(<<"b">>)>>)],
    [text |-> <<"f">>, tree |-> Str(<<"f">>)]>>

MarkStrings(max) == SeqsOf({"!", "'"}, 0, max)

PostfixParts(powers, marks) ==
  {[start |-> start, marks |-> ms] :
     start \in 1..Len(PostfixBases),
     ms \in {ms \in SeqsOf(MarkStrings(marks), 1, powers) :
               Len(Concat(ms)) <= marks}}

\* the base of the i-th operand
PostfixBase(parts, i) == PostfixBases[((parts.start + i - 2) % Len(PostfixBases)) + 1]

PostfixInput(parts) ==
  JoinWith([i \in 1..Len(parts.marks) |-> PostfixBase(parts, i).text \o parts.marks[i]], <<"^">>)

PostfixJobs(powers, marks) ==
  {Job("postfix", DefaultOptions, parts, PostfixInput(parts)) :
     parts \in PostfixParts(powers, marks)}

InitPostfix == InitJob(PostfixJobs(MaxPowers, MaxMarks))

SpecPostfix == InitPostfix /\ [][TextNext]_vars

(***************************************************************************)
(* Family "subscript": three primaries a, b, c written as a_b^c, a^b_c,    *)
(* a_b_c and (a_b)_c; f is in functionSymbols.                             *)
(***************************************************************************)
SubscriptPrimaries ==
  {[text |-> <<"x">>, tree |-> Str(<<"x">>)],
   [text |-> <<"2">>, tree |-> Num(Decimal(2, 0))],
   [text |-> <<"(", "y", "+", "z", ")">>, tree |-> Node(<<"+">>, <<Str(<<"y">>), Str(<<"z">>)>>)],
   [text |-> <<"f">>, tree |-> Str(<<"f">>)]}

SubscriptShapes == {"a_b^c", "a^b_c", "a_b_c", "(a_b)_c"}

SubscriptInput(parts) ==
  CASE parts.shape = "a_b^c" -> parts.a.text \o <<"_">> \o parts.b.text \o <<"^">> \o parts.c.text
    [] parts.shape = "a^b_c" -> parts.a.text \o <<"^">> \o parts.b.text \o <<"_">> \o parts.c.text
    [] parts.shape = "a_b_c" -> parts.a.text \o <<"_">> \o parts.b.text \o <<"_">> \o parts.c.text
    [] OTHER -> <<"(">> \o parts.a.text \o <<"_">> \o parts.b.text \o <<")", "_">> \o parts.c.text

SubscriptJobs ==
  {Job("subscript", DefaultOptions, parts, SubscriptInput(parts)) :
     parts \in [shape : SubscriptShapes, a : SubscriptPrimaries,
                b : SubscriptPrimaries, c : SubscriptPrimaries]}

InitSubscript == InitJob(SubscriptJobs)

SpecSubscript == InitSubscript /\ [][TextNext]_vars

(***************************************************************************)
(* Family "brackets": 1..MaxElements elements separated by commas, bare or *)
(* inside a pair of brackets, in the text and in the LaTeX notation; \{ \} *)
(* is a pair of the LaTeX notation only.                                   *)
(***************************************************************************)
MaxElements == 3

BracketElements ==
  {[text |-> <<"a">>, tree |-> Str(<<"a">>)],
   [text |-> <<"2">>, tree |-> Num(Decimal(2, 0))],
   [text |-> <<"x", "+", "y">>, tree |-> Node(<<"+">>, <<Str(<<"x">>), Str(<<"y">>)>>)]}

TextPairs ==
  {[left |-> <<>>, right |-> <<>>, tag |-> S.list],
   [left |-> <<"(">>, right |-> <<")">>, tag |-> S.tuple],
   [left |-> <<"[">>, right |-> <<"]">>, tag |-> S.array],
   [left |-> <<"{">>, right |-> <<"}">>, tag |-> S.set]}

LatexPairs == TextPairs \cup {[left |-> <<"\\", "{">>, right |-> <<"\\", "}">>, tag |-> S.set]}

BracketInput(parts) ==
  parts.pair.left
    \o JoinWith([i \in 1..Len(parts.elements) |-> parts.elements[i].text], <<",">>)
    \o parts.pair.right

BracketJobs(max) ==
  {Job("brackets", DefaultOptions, parts, BracketInput(parts)) :
     parts \in [pair : TextPairs, elements : SeqsOf(BracketElements, 1, max)]}

LatexBracketJobs(max) ==
  {LatexJob("brackets", LatexDefaultOptions, parts, BracketInput(parts)) :
     parts \in [pair : LatexPairs, elements : SeqsOf(BracketElements, 1, max)]}

InitBrackets == InitJob(BracketJobs(MaxElements))

SpecBrackets == InitBrackets /\ [][TextNext]_vars

InitLatexBrackets == InitLatexJob(LatexBracketJobs(MaxElements))

SpecLatexBrackets == InitLatexBrackets /\ [][LatexNext]_vars

(***************************************************************************)
(* Family "closing": 1..MaxElements elements separated by commas, between  *)
(* one of ( [ { and one of ) ] }, in the text notation.                    *)
(***************************************************************************)
LeftBrackets == {<<"(">>, <<"[">>, <<"{">>}

RightBrackets == {<<")">>, <<"]">>, <<"}">>}

ClosingInput(parts) ==
  parts.left
    \o JoinWith([i \in 1..Len(parts.elements) |-> parts.elements[i].text], <<",">>)
    \o parts.right

ClosingJobs(max) ==
  {Job("closing", DefaultOptions, parts, ClosingInput(parts)) :
     parts \in [left : LeftBrackets, right : RightBrackets,
                elements : SeqsOf(BracketElements, 1, max)]}

InitClosing == InitJob(ClosingJobs(MaxElements))

SpecClosing == InitClosing /\ [][TextNext]_vars

(***************************************************************************)
(* Family "greek": one Greek letter of the table of text_rules alone, with *)
(* the name the table gives it, parsed with and without splitSymbols and   *)
(* with the default and with an empty unsplitSymbols.                      *)
(***************************************************************************)
GreekGlyphs ==
  {[glyph |-> <<"U+03B1">>, name |-> <<"a", "l", "p", "h", "a">>],
   [glyph |-> <<"U+03B2">>, name |-> <<"b", "e", "t", "a">>],
   [glyph |-> <<"U+03D0">>, name |-> <<"b", "e", "t", "a">>],
   [glyph |-> <<"U+0393">>, name |-> <<"G", "a", "m", "m", "a">>],
   [glyph |-> <<"U+03B3">>, name |-> <<"g", "a", "m", "m", "a">>],
   [glyph |-> <<"U+0394">>, name |-> <<"D", "e", "l", "t", "a">>],
   [glyph |-> <<"U+03B4">>, name |-> <<"d", "e", "l", "t", "a">>],
   [glyph |-> <<"U+03B5">>, name |-> <<"e", "p", "s", "i", "l", "o", "n">>],
   [glyph |-> <<"U+03F5">>, name |-> <<"e", "p", "s", "i", "l", "o", "n">>],
   [glyph |-> <<"U+03B6">>, name |-> <<"z", "e", "t", "a">>],
   [glyph |-> <<"U+03B7">>, name |-> <<"e", "t", "a">>],
   [glyph |-> <<"U+0398">>, name |-> <<"T", "h", "e", "t", "a">>],
   [glyph |-> <<"U+03F4">>, name |-> <<"T", "h", "e", "t", "a">>],
   [glyph |-> <<"U+03B8">>, name |-> <<"t", "h", "e", "t", "a">>],
   [glyph |-> <<"U+1DBF">>, name |-> <<"t", "h", "e", "t", "a">>],
   [glyph |-> <<"U+03D1">>, name |-> <<"t", "h", "e", "t", "a">>],
   [glyph |-> <<"U+03B9">>, name |-> <<"i", "o", "t", "a">>],
   [glyph |-> <<"U+03BA">>, name |-> <<"k", "a", "p", "p", "a">>],
   [glyph |-> <<"U+039B">>, name |-> <<"L", "a", "m", "b", "d", "a">>],
   [glyph |-> <<"U+03BB">>, name |-> <<"l", "a", "m", "b", "d", "a">>],
   [glyph |-> <<"U+03BC">>, name |-> <<"m", "u">>],
   [glyph |-> <<"U+00B5">>, name |-> <<"m", "u">>],
   [glyph |-> <<"U+03BD">>, name |-> <<"n", "u">>],
   [glyph |-> <<"U+039E">>, name |-> <<"X", "i">>],
   [glyph |-> <<"U+03BE">>, name |-> <<"x", "i">>],
   [glyph |-> <<"U+03A0">>, name |-> <<"P", "i">>],
   [glyph |-> <<"U+03C0">>, name |-> <<"p", "i">>],
   [glyph |-> <<"U+03D6">>, name |-> <<"p", "i">>],
   [glyph |-> <<"U+03C1">>, name |-> <<"r", "h", "o">>],
   [glyph |-> <<"U+03F1">>, name |-> <<"r", "h", "o">>],
   [glyph |-> <<"U+03A3">>, name |-> <<"S", "i", "g", "m", "a">>],
   [glyph |-> <<"U+03C3">>, name |-> <<"s", "i", "g", "m", "a">>],
   [glyph |-> <<"U+03C2">>, name |-> <<"s", "i", "g", "m", "a">>],
   [glyph |-> <<"U+03C4">>, name |-> <<"t", "a", "u">>],
   [glyph |-> <<"U+03A5">>, name |-> <<"U", "p", "s", "i", "l", "o", "n">>],
   [glyph |-> <<"U+03C5">>, name |-> <<"u", "p", "s", "i", "l", "o", "n">>],
   [glyph |-> <<"U+03A6">>, name |-> <<"P", "h", "i">>],
   [glyph |-> <<"U+03C6">>, name |-> <<"p", "h", "i">>],
   [glyph |-> <<"U+03D5">>, name |-> <<"p", "h", "i">>],
   [glyph |-> <<"U+03A8">>, name |-> <<"P", "s", "i">>],
   [glyph |-> <<"U+03C8">>, name |-> <<"p", "s", "i">>],
   [glyph |-> <<"U+03A9">>, name |-> <<"O", "m", "e", "g", "a">>],
   [glyph |-> <<"U+03C9">>, name |-> <<"o", "m", "e", "g", "a">>]}

GreekOptions ==
  {[DefaultOptions EXCEPT !.splitSymbols = splitting, !.unsplitSymbols = kept] :
     splitting \in BOOLEAN, kept \in {DefaultOptions.unsplitSymbols, <<>>}}

GreekJobs ==
  {Job("greek", options, letter, letter.glyph) :
     options \in GreekOptions, letter \in GreekGlyphs}

InitGreek == InitJob(GreekJobs)

SpecGreek == InitGreek /\ [][TextNext]_vars

(***************************************************************************)
(* Family "radicals": \frac{a}{b}, \sqrt{a} and \sqrt[n]{a} over the       *)
(* statements of RadicalStatements and the indices of RadicalIndices,      *)
(* intact or with one of the brackets { } ] left out; two tells that the   *)
(* index is the number 2 or a name that JS reads as the number 2.          *)
(***************************************************************************)
RadicalStatements ==
  {[text |-> <<"a">>, tree |-> Str(<<"a">>)],
   [text |-> <<"4">>, tree |-> Num(Decimal(4, 0))],
   [text |-> <<"x", "+", "1">>, tree |-> Node(<<"+">>, <<Str(<<"x">>), Num(Decimal(1, 0))>>)],
   [text |-> <<"a", "=", "b">>, tree |-> Node(<<"=">>, <<Str(<<"a">>), Str(<<"b">>)>>)]}

RadicalIndices ==
  {[text |-> <<"3">>, tree |-> Num(Decimal(3, 0)), two |-> FALSE],
   [text |-> <<"n">>, tree |-> Str(<<"n">>), two |-> FALSE],
   [text |-> <<"1", "+", "1">>, tree |-> Node(<<"+">>, <<Num(Decimal(1, 0)), Num(Decimal(1, 0))>>),
    two |-> FALSE],
   [text |-> <<"2">>, tree |-> Num(Decimal(2, 0)), two |-> TRUE],
   [text |-> <<"\\", "v", "a", "r", "{", "2", "}">>, tree |-> Str(<<"2">>), two |-> TRUE],
   [text |-> <<"\\", "v", "a", "r", "{", "0", "2", "}">>, tree |-> Str(<<"0", "2">>), two |-> TRUE]}

\* the pieces of an input, and the places of the brackets that may be left out
RadicalPieces(parts) ==
  CASE parts.shape = "frac" ->
         <<<<"\\", "f", "r", "a", "c">>, <<"{">>, parts.a.text, <<"}">>, <<"{">>, parts.b.text, <<"}">>>>
    [] parts.shape = "sqrt" -> <<<<"\\", "s", "q", "r", "t">>, <<"{">>, parts.a.text, <<"}">>>>
    [] OTHER ->
         <<<<"\\", "s", "q", "r", "t">>, <<"[">>, parts.b.text, <<"]">>, <<"{">>, parts.a.text, <<"}">>>>

RadicalBrackets(shape) ==
  CASE shape = "frac" -> {2, 4, 5, 7}
    [] shape = "sqrt" -> {2, 4}
    [] OTHER -> {4, 5, 7}

RadicalInput(parts) ==
  LET pieces == RadicalPieces(parts)
  IN Concat([i \in 1..Len(pieces) |-> IF i = parts.missing THEN <<>> ELSE pieces[i]])

\* missing is 0 when the input is intact
RadicalParts ==
  {[shape |-> "frac", a |-> a, b |-> b, missing |-> missing] :
     a \in RadicalStatements, b \in RadicalStatements,
     missing \in {0} \cup RadicalBrackets("frac")}
  \cup
  {[shape |-> "sqrt", a |-> a, b |-> a, missing |-> missing] :
     a \in RadicalStatements, missing \in {0} \cup RadicalBrackets("sqrt")}
  \cup
  {[shape |-> "root", a |-> a, b |-> n, missing |-> missing] :
     a \in RadicalStatements, n \in RadicalIndices,
     missing \in {0} \cup RadicalBrackets("root")}

RadicalJobs ==
  {LatexJob("radicals", LatexDefaultOptions, parts, RadicalInput(parts)) :
     parts \in RadicalParts}

InitRadicals == InitLatexJob(RadicalJobs)

SpecRadicals == InitRadicals /\ [][LatexNext]_vars

(***************************************************************************)
(* Family "malformed": a beginning, at most one space, a token that cannot *)
(* follow it, and an end (nothing, 1 or a space and 1); the token is       *)
(* nothing when the input ends too early, and the space is then the end.   *)
(*   operand     the beginning waits for an operand                        *)
(*   closing     the beginning waits for its closing bracket               *)
(*   symbol      the token is a character no rule of text_rules matches    *)
(***************************************************************************)
NoOperand ==
  {<<>>, <<")">>, <<"]">>, <<"}">>, <<"*">>, <<"/">>, <<"^">>, <<",">>, <<"=">>, <<"<">>,
   <<"<", "=">>, <<"a", "n", "d">>, <<"o", "r">>, <<"'">>}

InvalidSymbols == {<<"@">>, <<"\\">>, <<"#">>}

MalformedContexts ==
  {[kind |-> "operand", beginning |-> b, tokens |-> NoOperand] :
     b \in {<<>>, <<"x", "*", "(">>, <<"2", "^">>, <<"a", ",">>}}
  \cup
  {[kind |-> "operand", beginning |-> <<"1", "+">>, tokens |-> NoOperand \cup {<<"+">>}],
   [kind |-> "operand", beginning |-> <<"x", "-", "y", "-">>, tokens |-> {<<>>}],
   [kind |-> "operand", beginning |-> <<"x", "_">>, tokens |-> {<<>>}],
   [kind |-> "operand", beginning |-> <<"s", "i", "n">>, tokens |-> {<<>>}],
   [kind |-> "closing", beginning |-> <<"(", "1", "+", "1">>, tokens |-> {<<>>, <<"]">>, <<"}">>}],
   [kind |-> "closing", beginning |-> <<"[", "x">>, tokens |-> {<<>>, <<")">>, <<"}">>}],
   [kind |-> "closing", beginning |-> <<"(", "1", ",", "2", ",", "3">>, tokens |-> {<<>>, <<"]">>, <<"}">>}],
   [kind |-> "closing", beginning |-> <<"{", "x">>, tokens |-> {<<>>, <<")">>, <<"]">>}],
   [kind |-> "closing", beginning |-> <<"|", "y", "/", "v">>, tokens |-> {<<>>, <<")">>}]}
  \cup
  {[kind |-> "symbol", beginning |-> b, tokens |-> InvalidSymbols] :
     b \in {<<>>, <<"1", "+">>, <<"x">>, <<"(", "x">>}}

MalformedParts ==
  {[kind |-> c.kind, beginning |-> c.beginning, space |-> space, token |-> token,
    end |-> IF token = <<>> THEN <<>> ELSE end] :
     c \in MalformedContexts, space \in {<<>>, <<" ">>}, token \in NoOperand \cup InvalidSymbols \cup {<<"+">>},
     end \in {<<>>, <<" ", "1">>, <<"1">>}}

MalformedJobs ==
  {Job("malformed", DefaultOptions, parts,
       parts.beginning \o parts.space \o parts.token \o parts.end) :
     parts \in {parts \in MalformedParts :
                  \E c \in MalformedContexts :
                    /\ c.beginning = parts.beginning /\ c.kind = parts.kind
                    /\ parts.token \in c.tokens
                    \* and1 and or1 are names
                    /\ parts.end = <<"1">> => parts.token \notin {<<"a", "n", "d">>, <<"o", "r">>}}}

InitMalformed == InitJob(MalformedJobs)

\* no input of the family has a tree to render
SpecMalformed == InitMalformed /\ [][Convert]_vars

(***************************************************************************)
(* Family "modes": x and y joined by one of the relations and operators    *)
(* that the two tables of astToText print differently, or one Greek letter *)
(* or oo alone; the tree is printed with output_unicode true or false.     *)
(***************************************************************************)
ModeOperators ==
  {<<"!", "=">>, <<"<", "=">>, <<">", "=">>, <<"e", "l", "e", "m", "e", "n", "t", "o", "f">>, <<"n", "o", "t", "e", "l", "e", "m", "e", "n", "t", "o", "f">>, <<"c", "o", "n", "t", "a", "i", "n", "s", "e", "l", "e", "m", "e", "n", "t">>,
   <<"n", "o", "t", "c", "o", "n", "t", "a", "i", "n", "s", "e", "l", "e", "m", "e", "n", "t">>, <<"s", "u", "b", "s", "e", "t">>, <<"n", "o", "t", "s", "u", "b", "s", "e", "t">>, <<"s", "u", "p", "e", "r", "s", "e", "t">>,
   <<"n", "o", "t", "s", "u", "p", "e", "r", "s", "e", "t">>, <<"u", "n", "i", "o", "n">>, <<"i", "n", "t", "e", "r", "s", "e", "c", "t">>, <<"=">>, <<"<">>, <<"a", "n", "d">>, <<"o", "r">>}

ModeInputs ==
  {<<"x", " ">> \o operator \o <<" ", "y">> : operator \in ModeOperators}
  \cup {letter.glyph : letter \in GreekGlyphs}
  \cup {<<"o", "o">>}

ModeJobs ==
  {[Job("modes", DefaultOptions, <<>>, input) EXCEPT !.output_unicode = unicode] :
     input \in ModeInputs, unicode \in BOOLEAN}

InitModes == InitJob(ModeJobs)

SpecModes == InitModes /\ [][TextNext]_vars

(***************************************************************************)
(* Family "printer": astToText.convert called on a tree given by the       *)
(* caller.  The tree is a node of one tag, well formed or with an operand  *)
(* missing or with a tag no table holds, alone or as an operand of a sum,  *)
(* a tuple or a function application.                                       *)
(***************************************************************************)
X == Str(<<"x">>)

Y == Str(<<"y">>)

One == Num(Decimal(1, 0))

\* one node of every tag of the data model, with the operands its tag takes
WellFormedNodes ==
  {Node(operator, <<X, Y>>) :
     operator \in {<<"+">>, <<"*">>, S.and, S.or, S.tuple, S.array, S.set, S.list,
                   S.vector, <<"/">>, <<"^">>, <<"_">>, <<"=">>, S.ne, <<"<">>, <<">">>,
                   S.le, S.ge, S.in, S.notin, S.ni, S.notni, S.subset, S.notsubset,
                   S.superset, S.notsuperset, S.union, S.intersect}}
  \cup {Node(operator, <<X>>) : operator \in {S.prime, <<"-">>, S.not}}
  \cup {Node(operator, <<Node(S.tuple, <<X, Y, One>>), Node(S.tuple, <<Bool(TRUE), Bool(FALSE)>>)>>) :
          operator \in {S.lts, S.gts}}
  \cup {Node(S.interval, <<Node(S.tuple, <<X, Y>>), Node(S.tuple, <<Bool(TRUE), Bool(FALSE)>>)>>)}
  \cup {Node(S.apply, <<Str(name), X>>) : name \in {<<"f">>, S.abs, S.factorial}}
  \cup {Node(S.matrix, <<Node(S.tuple, <<One, One>>), Node(S.tuple, <<Node(S.tuple, <<X>>)>>)>>)}

\* a node that lacks an operand of its tag
ArityViolations ==
  {Node(operator, <<X>>) :
     operator \in {<<"/">>, <<"^">>, <<"_">>, S.in, S.subset, S.apply, S.interval, S.lts}}
  \cup {Node(operator, <<>>) : operator \in {<<"-">>, S.prime, S.not}}

\* a node whose tag is not a tag of the data model
UnknownTags == {Node(<<"f", "o", "o">>, <<X>>), Node(<<"s", "q", "r", "t">>, <<X>>)}

\* the tree that holds a node at depth 0 or 1
Wrapped(wrap, node) ==
  CASE wrap = "alone" -> node
    [] wrap = "sum" -> Node(<<"+">>, <<One, node>>)
    [] wrap = "tuple" -> Node(S.tuple, <<node, Y>>)
    [] wrap = "argument" -> Node(S.apply, <<Str(<<"f">>), node>>)

Wraps == {"alone", "sum", "tuple", "argument"}

PrinterJobs ==
  {[RawJob("printer", Wrapped(wrap, node)) EXCEPT
      !.parts = [shape |-> "wellformed", wrap |-> wrap, node |-> node],
      !.output_unicode = unicode] :
     wrap \in Wraps, node \in WellFormedNodes, unicode \in BOOLEAN}
  \cup
  {[RawJob("printer", Wrapped(wrap, node)) EXCEPT
      !.parts = [shape |-> "arity", wrap |-> wrap, node |-> node],
      !.output_unicode = unicode] :
     wrap \in Wraps, node \in ArityViolations, unicode \in BOOLEAN}
  \cup
  {[RawJob("printer", Wrapped(wrap, node)) EXCEPT
      !.parts = [shape |-> "unknown", wrap |-> wrap, node |-> node],
      !.output_unicode = unicode] :
     wrap \in Wraps, node \in UnknownTags, unicode \in BOOLEAN}

InitPrinter ==
  /\ job \in PrinterJobs
  /\ pc = "given"
  /\ out1 = NotRun
  /\ text1 = NoText
  /\ out2 = NotRun
  /\ text2 = NoText
  /\ locals = <<>>

\* new astToText({output_unicode}).convert(tree), for a tree of the caller
RenderGiven ==
  /\ pc = "given"
  /\ text1' = print_convert(astToText([output_unicode |-> job.output_unicode]), job.raw)
  /\ pc' = IF text1'.type = "thrown" THEN "unprintable" ELSE "text"
  /\ UNCHANGED <<job, locals, out1, out2, text2>>

SpecPrinter == InitPrinter /\ [][RenderGiven]_vars

(***************************************************************************)
(* Family "lexer": the calls set_input, advance and unput of one lexer, in *)
(* any order.  The lexer is the field lexer of a parser (out1.p), the      *)
(* token that advance returned is its field token, and text1 is the text   *)
(* of the last call of set_input.                                          *)
(***************************************************************************)
\* the longest input that the calls of unput may build
MaxPushed == 3

LexerInputs ==
  {<<>>, <<" ">>, <<"x">>, <<" ", "x">>, <<"x", " ">>, <<"x", "y">>, <<"x", " ", "y">>, <<"p", "i">>, <<"x", "1">>,
   <<"1", "2">>, <<"1", ".", "5", "x">>, <<".", "5">>, <<"2", "E", "3">>, <<"*">>, <<"*", "*">>, <<"*", "*", "*">>, <<"!">>, <<"!", "=">>,
   <<"<">>, <<"<", "=">>, <<"&">>, <<"&", "&">>, <<"a", "n", "d">>, <<"a", "n", "d", "y">>, <<"o", "o">>, <<"o", "o", "x">>,
   <<"@">>, <<"x", "@">>, <<"U+03BC">>, <<"U+212F", "x">>, <<"d", "x", "/", "d", "y">>, <<"d", "x">>}

LatexLexerInputs ==
  {<<>>, <<"x">>, <<" ", "x">>, <<"x", "y">>, <<"\\", "l", "e">>, <<"\\", "l", "e", "q">>, <<"\\", "l", "e", "f", "t", "(">>, <<"\\", ",", "x">>,
   <<"\\", " ", "x">>, <<"\\", "p", "i">>, <<"\\", "{">>, <<"{">>, <<"\\", "\\">>, <<"&">>, <<"1", "2">>, <<"\\", "c", "d", "o", "t">>}

\* the strings that the callers of unput give it
UnputStrings == {<<" ">>, <<"x">>, <<"x", "y">>}

LexerJobs ==
  {Job("lexer", DefaultOptions, <<second>>, input) :
     input \in LexerInputs, second \in {<<"x", " ", "y">>}}
  \cup
  {LatexJob("lexer", LatexDefaultOptions, <<second>>, input) :
     input \in LatexLexerInputs, second \in {<<"x", " ", "y">>}}

InitLexer == InitJob(LexerJobs)

\* new textToAst(options) or new latexToAst(options), by the kind of the job
Converter(j) ==
  IF "latex" \in DOMAIN j THEN latexToAst(j.options) ELSE textToAst(j.options)

\* lexer.set_input(text)
SetInput ==
  /\ pc \in {"input", "lexing"}
  /\ \E text \in {job.input, job.parts[1]} :
       /\ out1' = [NotRun EXCEPT !.p = [Converter(job) EXCEPT !.lexer = set_input(text)]]
       /\ text1' = StringValue(text)
  /\ pc' = "lexing"
  /\ UNCHANGED <<job, locals, out2, text2>>

\* token = lexer.advance()
LexerAdvance ==
  /\ pc = "lexing"
  /\ LET lx == lexer_advance(token_rules(out1.p), out1.p.lexer)
     IN out1' = [out1 EXCEPT !.p.lexer = [input |-> lx.input, location |-> lx.location],
                             !.p.token = lx.token]
  /\ UNCHANGED <<job, locals, pc, text1, out2, text2>>

\* lexer.unput(str)
LexerUnput ==
  /\ pc = "lexing"
  /\ \E str \in UnputStrings :
       /\ Len(out1.p.lexer.input) + Len(str) <= MaxPushed
       /\ out1' = [out1 EXCEPT !.p.lexer = unput(out1.p.lexer, str)]
  /\ UNCHANGED <<job, locals, pc, text1, out2, text2>>

LexerNext == SetInput \/ LexerAdvance \/ LexerUnput

SpecLexer == InitLexer /\ [][LexerNext]_vars

(***************************************************************************)
(* Family "spacing": a LaTeX input with one spacing command between two    *)
(* pieces of a formula.                                                    *)
(***************************************************************************)
SpacingCommands ==
  {<<"\\", ",">>, <<"\\", ";">>, <<"\\", "!">>, <<"\\", ":">>, <<"\\", ">">>, <<"\\", "q", "u", "a", "d">>, <<"\\", "q", "q", "u", "a", "d">>}

SpacingParts ==
  [left : {<<"x">>, <<"x", "+">>, <<"2">>, <<"x", "^">>, <<"(", "x", ")">>, <<"\\", "p", "i">>},
   command : SpacingCommands,
   right : {<<"2">>, <<"(", "y", ")">>, <<" ", "y">>, <<"{", "y", "}">>}]

SpacingJobs ==
  {LatexJob("spacing", LatexDefaultOptions, parts,
            parts.left \o parts.command \o parts.right) : parts \in SpacingParts}

InitSpacing == InitLatexJob(SpacingJobs)

SpecSpacing == InitSpacing /\ [][ConvertLatex]_vars

(***************************************************************************)
(* Family "serial": two calls of convert, one after the other, on one      *)
(* instance of textToAst or latexToAst.                                    *)
(***************************************************************************)
SerialInputs ==
  {<<"x">>, <<"x", "y", "+", "1">>, <<"a", "b", "@", "c">>, <<"(", "a", "b">>, <<"a", "b", ")", "c", " ", "d">>, <<"1", "+">>, <<"s", "i", "n">>,
   <<"x", "_">>, <<"2", " ", "p", "i", " ", "z">>, <<>>}

LatexSerialInputs ==
  {<<"x">>, <<"x", "y", "+", "1">>, <<"\\", "f", "r", "a", "c", "{", "x", "}">>, <<"x", "\\", ",", "y", " ", "z">>, <<"(", "x">>, <<"\\", "s", "i", "n">>,
   <<"\\", "b", "e", "g", "i", "n", "{", "m", "a", "t", "r", "i", "x", "}", "a", "&", "b">>, <<>>}

SerialOptions ==
  {DefaultOptions, [DefaultOptions EXCEPT !.splitSymbols = FALSE]}

SerialJobs ==
  {Job("serial", options, [second |-> second], input) :
     options \in SerialOptions, input \in SerialInputs, second \in SerialInputs}
  \cup
  {LatexJob("serial", LatexDefaultOptions, [second |-> second], input) :
     input \in LatexSerialInputs, second \in LatexSerialInputs}

InitSerial == InitLatexJob(SerialJobs)

\* converter.convert(second), on the instance that the first call has used
ConvertSecond ==
  /\ pc \in {"tree", "rejected"}
  /\ out2' = convert(out1.p, StringValue(job.parts.second))
  /\ pc' = IF out2'.ok THEN "tree2" ELSE "rejected2"
  /\ UNCHANGED <<job, locals, out1, text1, text2>>

SerialNext == Convert \/ ConvertLatex \/ ConvertSecond

SpecSerial == InitSerial /\ [][SerialNext]_vars

(***************************************************************************)
(* Family "environment": a LaTeX environment of 1..MaxRows rows of         *)
(* 1..MaxCells cells, a cell being empty, x or y; the rows are separated   *)
(* by \\ and the cells by &.  The claim about the entries leaves two       *)
(* inputs open, which the family leaves out: an empty first cell of the    *)
(* first row before another cell (no separator stands before it), and a    *)
(* matrix whose cells are all empty.                                       *)
(***************************************************************************)
MaxCells == 2

MatrixCells == {<<>>, <<"x">>, <<"y">>}

CellRows == UNION {[1..n -> MatrixCells] : n \in 1..MaxCells}

CellMatrices ==
  {rows \in UNION {[1..n -> CellRows] : n \in 1..MaxRows} :
     /\ ~(Len(rows[1]) > 1 /\ rows[1][1] = <<>>)
     /\ \E r \in 1..Len(rows) : \E c \in 1..Len(rows[r]) : rows[r][c] # <<>>}

EnvironmentNames == {<<"m", "a", "t", "r", "i", "x">>, <<"p", "m", "a", "t", "r", "i", "x">>, <<"b", "m", "a", "t", "r", "i", "x">>}

EnvironmentParts ==
  {[begin |-> name, end |-> name, rows |-> rows] :
     name \in EnvironmentNames, rows \in CellMatrices}
  \cup
  {[begin |-> begin, end |-> end, rows |-> <<<<<<"x">>, <<"y">>>>>>] :
     begin \in EnvironmentNames \cup {<<"a", "r", "r", "a", "y">>, <<"a", "l", "i", "g", "n">>},
     end \in EnvironmentNames \cup {<<"a", "r", "r", "a", "y">>}}

EnvironmentInput(parts) ==
  <<"\\", "b", "e", "g", "i", "n", "{">> \o parts.begin \o <<"}">>
  \o JoinWith([r \in 1..Len(parts.rows) |-> JoinWith(parts.rows[r], <<"&">>)], <<"\\", "\\">>)
  \o <<"\\", "e", "n", "d", "{">> \o parts.end \o <<"}">>

EnvironmentJobs ==
  {LatexJob("environment", LatexDefaultOptions, parts, EnvironmentInput(parts)) :
     parts \in EnvironmentParts}

InitEnvironment == InitLatexJob(EnvironmentJobs)

SpecEnvironment == InitEnvironment /\ [][ConvertLatex]_vars

(***************************************************************************)
(* The loops of convert, one iteration a step.  pc names the loop that     *)
(* runs, out1 holds the instance (out1.p) and the tree built so far        *)
(* (out1.tree), locals the local variables of the loop.                    *)
(*                                                                         *)
(* Family "tokens": the traffic between textToAst and its lexer for an     *)
(* input of words joined by a space, + or nothing: advance for every       *)
(* token, and the unput calls of baseFactor for a word it splits.          *)
(* Family "term": the do ... while (keepGoing) loop of term, for an input  *)
(* that is one term.                                                       *)
(* Family "rows": the while loop of the matrix environments of             *)
(* latexToAst.baseFactor.                                                  *)
(***************************************************************************)
\* the longest word of an input of family "tokens"
MaxLetters == 3

TokenWords ==
  UNION {[1..n -> {"x", "y"}] : n \in 1..MaxLetters} \cup {<<"p", "i">>, <<"x", "1">>, <<"2">>}

TokenInputs ==
  {first \o joint \o second :
     first \in TokenWords, joint \in {<<" ">>, <<"+">>},
     second \in {<<"y">>, <<"x", "y">>, <<"@">>}}
  \cup {first \o <<" ">> : first \in TokenWords}

TermInputs ==
  {<<"x">>, <<"x", " ", "y">>, <<"x", "y", "z">>, <<"2", "x", "/", "3">>, <<"x", "*", "y", " ", "z">>, <<"x", "*", "*">>, <<"x", "/">>, <<"(", "x", "+", "1", ")", "y">>,
   <<"x", ")">>, <<"x", "y", "@">>, <<"s", "i", "n", " ", "x", " ", "y">>, <<"x", "!", "y", "'">>, <<"2", " ", "3", " ", "x", "_", "1", " ", "y">>, <<"x", "^", "2", "y", "x">>}

RowsEndings ==
  {<<"\\", "e", "n", "d", "{", "m", "a", "t", "r", "i", "x", "}">>, <<"\\", "e", "n", "d", "{", "p", "m", "a", "t", "r", "i", "x", "}">>, <<>>, <<")">>, <<"&">>, <<"\\", "\\">>, <<"x">>}

RowsBodies ==
  {<<>>, <<"x">>, <<"x", "&", "y">>, <<"x", "\\", "\\", "y">>, <<"x", "&", "&", "y">>, <<"&", "x">>, <<"x", "&">>, <<"x", " ", "y", "&", "(", "x">>}

RowsInputs ==
  {<<"\\", "b", "e", "g", "i", "n", "{", "m", "a", "t", "r", "i", "x", "}">> \o body \o ending :
     body \in RowsBodies, ending \in RowsEndings}

LoopJobs ==
  {Job("tokens", options, [start |-> "tokens"], input) :
     options \in SerialOptions, input \in TokenInputs}
  \cup
  {Job("term", DefaultOptions, [start |-> "term"], input) : input \in TermInputs}
  \cup
  {LatexJob("rows", LatexDefaultOptions, [start |-> "rows"], input) :
     input \in RowsInputs}

InitLoops ==
  /\ job \in LoopJobs
  /\ pc = job.parts.start
  /\ out1 = NotRun
  /\ text1 = NoText
  /\ out2 = NotRun
  /\ text2 = NoText
  /\ locals = <<>>

\* baseFactor putting back every symbol that names no function, the single
\* letters too (mutation of Splits)
Splits_every_symbol(p) ==
  /\ p.token.type \in {"VAR", "VARMULTICHAR"}
  /\ ~Includes(p.appliedFunctionSymbols, p.token.text)
  /\ ~Includes(p.functionSymbols, p.token.text)
  /\ p.splitSymbols

\* baseFactor: the token is a symbol that is put back as its letters
Splits(p) ==
  /\ p.token.type \in {"VAR", "VARMULTICHAR"}
  /\ ~Includes(p.appliedFunctionSymbols, p.token.text)
  /\ ~Includes(p.functionSymbols, p.token.text)
  /\ split(p)

\* the arguments of the calls of unput that the loop of baseFactor makes
\* for result, in their order: " ", the last letter, " ", the letter
\* before it, ...
UnputCalls(result) ==
  [k \in 1..(2 * Len(result)) |->
     IF k % 2 = 1 THEN <<" ">> ELSE <<result[Len(result) + 1 - (k \div 2)]>>]

\* the place of convert after an advance that returned: inside the unput
\* loop, at the end of the input, or before the next advance
AfterAdvance(p) ==
  IF Thrown(p) THEN "rejected"
  ELSE IF p.token.type = "EOF" THEN "done"
  ELSE IF Splits(p) THEN "unput"
  ELSE "advance"

\* convert: this.lexer.set_input(input)
StartConvert ==
  /\ pc = "tokens"
  /\ out1' = [NotRun EXCEPT !.p = [textToAst(job.options) EXCEPT
                                      !.lexer = set_input(job.input)]]
  /\ pc' = "advance"
  /\ UNCHANGED <<job, locals, text1, out2, text2>>

\* this.advance(), by convert or by the production that takes the token
NextToken ==
  /\ pc = "advance"
  /\ out1' = [out1 EXCEPT !.p = advance(out1.p)]
  /\ pc' = AfterAdvance(out1'.p)
  /\ locals' = IF pc' = "unput" THEN UnputCalls(out1'.p.token.text) ELSE <<>>
  /\ UNCHANGED <<job, text1, out2, text2>>

\* baseFactor: one call of this.lexer.unput in the loop over the letters
UnputNext ==
  /\ pc = "unput"
  /\ out1' = [out1 EXCEPT !.p.lexer = unput(out1.p.lexer, Head(locals))]
  /\ locals' = Tail(locals)
  /\ pc' = IF locals' = <<>> THEN "advance" ELSE "unput"
  /\ UNCHANGED <<job, text1, out2, text2>>

\* the state of a loop that holds the result r and the instance p
Held(r, p) == [out1 EXCEPT !.p = p, !.tree = r]

\* term: var lhs = this.factor(), in a convert whose input is one term
TermStart ==
  /\ pc = "term"
  /\ LET lhs == production("factor",
                  <<Advance([textToAst(job.options) EXCEPT !.lexer = set_input(job.input)])>>)
     IN /\ out1' = Held(lhs.r, lhs.p)
        /\ pc' = IF Thrown(lhs.p) THEN "rejected" ELSE "keepGoing"
  /\ UNCHANGED <<job, locals, text1, out2, text2>>

\* term: one pass of the body of do ... while (keepGoing)
TermStep ==
  /\ pc = "keepGoing"
  /\ IF out1.p.token.type \in {"*", "/"}
     THEN LET f == production("factor", <<Advance(out1.p)>>)
          IN /\ out1' = Held(Node(<<out1.p.token.type>>, <<out1.tree, f.r>>), f.p)
             /\ pc' = IF Thrown(f.p) THEN "rejected" ELSE "keepGoing"
     ELSE LET rhs == production("nonMinusFactor", <<out1.p>>)
          IN IF Thrown(rhs.p)
             THEN out1' = Held(False, rhs.p) /\ pc' = "rejected"
             ELSE IF rhs.r # False
             THEN out1' = Held(Node(<<"*">>, <<out1.tree, rhs.r>>), rhs.p) /\ pc' = "keepGoing"
             ELSE out1' = Held(out1.tree, rhs.p) /\ pc' = "done"
  /\ UNCHANGED <<job, locals, text1, out2, text2>>

\* latexToAst.baseFactor at the token BEGINENVIRONMENT, up to the loop
RowsStart ==
  /\ pc = "rows"
  /\ LET p == Advance([latexToAst(job.options) EXCEPT !.lexer = set_input(job.input)])
     IN IF BracedName(p.token.text) \in EnvironmentNames
        THEN /\ out1' = Held(False, Advance(p))
             /\ locals' = [environment |-> BracedName(p.token.text), all_rows |-> <<>>,
                           row |-> <<>>, last_token |-> p.token.type]
             /\ pc' = IF Thrown(out1'.p) THEN "rejected" ELSE "while"
        ELSE /\ out1' = Held(False, Throw(p, "Unrecognized environment ",
                                          BracedName(p.token.text)))
             /\ locals' = locals
             /\ pc' = "rejected"
  /\ UNCHANGED <<job, text1, out2, text2>>

\* baseFactor, a matrix environment: one pass of the body of
\* while(this.token[0] !== 'ENDENVIRONMENT'), or what follows the loop
RowsStep ==
  /\ pc = "while"
  /\ LET p == out1.p
         separated == blank_entry(locals.row, locals.last_token, {"&", "LINEBREAK"})
     IN CASE p.token.type = "ENDENVIRONMENT" ->
               LET result == end_environment(locals.environment, locals.all_rows,
                                             locals.row, locals.last_token, p)
               IN /\ out1' = Held(result.r, result.p)
                  /\ locals' = locals
                  /\ pc' = IF Thrown(result.p) THEN "rejected" ELSE "done"
          [] p.token.type = "&" ->
               /\ out1' = Held(False, Advance(p))
               /\ locals' = [locals EXCEPT !.row = separated, !.last_token = "&"]
               /\ pc' = IF Thrown(out1'.p) THEN "rejected" ELSE "while"
          [] p.token.type = "LINEBREAK" ->
               /\ out1' = Held(False, Advance(p))
               /\ locals' = [locals EXCEPT !.all_rows = Append(@, separated),
                                           !.row = <<>>, !.last_token = "LINEBREAK"]
               /\ pc' = IF Thrown(out1'.p) THEN "rejected" ELSE "while"
          [] OTHER ->
               LET entry == production("statement", <<p>>)
               IN /\ out1' = Held(False, entry.p)
                  /\ locals' = IF Thrown(entry.p) THEN locals
                                ELSE [locals EXCEPT !.row = Append(@, entry.r),
                                                    !.last_token = " "]
                  /\ pc' = IF Thrown(entry.p) THEN "rejected" ELSE "while"
  /\ UNCHANGED <<job, text1, out2, text2>>

LoopsNext ==
  \/ StartConvert \/ NextToken \/ UnputNext
  \/ TermStart \/ TermStep
  \/ RowsStart \/ RowsStep

SpecLoops == InitLoops /\ [][LoopsNext]_vars

(***************************************************************************)
(* The properties.                                                         *)
(***************************************************************************)
\* the job has been taken through the first round trip and through the
\* second parse
Reparsed == pc \in {"tree2", "text2", "unprintable2"}

\* C1: round-trip law, text flavour, default configuration: for every
\* input that textToAst.convert accepts, the string astToText.convert
\* returns for its tree is accepted by textToAst.convert and parses to an
\* equal tree.
C1_RoundTripLaw ==
  /\ pc # "unprintable"
  /\ pc # "rejected2"
  /\ Reparsed => out2.tree = out1.tree

\* C2: rendered strings are a fixed point of the round trip: for every
\* accepted input, with r the string rendered for it, the second round
\* trip succeeds and renders exactly r, character for character.
C2_RenderedFixedPoint ==
  /\ pc \notin {"unprintable", "rejected2", "unprintable2"}
  /\ pc = "text2" => text2 = text1

\* the tags of the variadic nodes
VariadicTags == {<<"+">>, <<"*">>, S.and, S.or, S.tuple, S.array, S.set, S.list}

RECURSIVE NoSameTagChild(_)
\* no node of the tree with a variadic tag has an operand with that tag
NoSameTagChild(tree) ==
  \/ ~IsArray(tree)
  \/ Len(tree.elems) = 0
  \/ /\ \A i \in 2..Len(tree.elems) : NoSameTagChild(tree.elems[i])
     /\ (tree.elems[1].k = "string" /\ tree.elems[1].str \in VariadicTags)
          => \A i \in 2..Len(tree.elems) : ~HasOperator(tree.elems[i], tree.elems[1].str)

\* C3: in every tree a parser's convert returns, no node with a variadic
\* tag (+, *, and, or, tuple, array, set, list) has an immediate child with
\* the same tag: for parenthesised sub-products, nested tuples and the
\* bodies of LaTeX matrices alike.
C3_NoSameTagChild ==
  /\ out1.ok => NoSameTagChild(out1.tree)
  /\ out2.ok => NoSameTagChild(out2.tree)

\* C3, its case: a tree returned for an input whose tree had, before the
\* normalizer ran, a variadic node with a child of the same tag; and the
\* flattened tree of a matrix.
C3_Witness ==
  \/ /\ pc = "tree"
     /\ job.family = "group"
     /\ ~NoSameTagChild(raw_tree(textToAst(job.options), job.input))
  \/ /\ pc = "normal"
     /\ job.family = "matrix"
     /\ ~NoSameTagChild(job.raw)

RECURSIVE Leaves(_)
\* the leaves of a tree from left to right, the operators left out
Leaves(tree) ==
  IF ~IsArray(tree) THEN <<tree>>
  ELSE Concat([i \in 1..(Len(tree.elems) - 1) |-> Leaves(tree.elems[i + 1])])

RECURSIVE Sum(_)
Sum(numbers) == IF Len(numbers) = 0 THEN 0 ELSE numbers[1] + Sum(Drop(2, numbers))

RECURSIVE NodeCount(_)
\* the number of nodes (arrays) of a tree
NodeCount(tree) ==
  IF ~IsArray(tree) THEN 0
  ELSE 1 + Sum([i \in 1..(Len(tree.elems) - 1) |-> NodeCount(tree.elems[i + 1])])

RECURSIVE Collapsible(_)
\* the number of nodes of a tree that are an operand of a node with the same
\* variadic tag
Collapsible(tree) ==
  IF ~IsArray(tree) \/ Len(tree.elems) = 0 THEN 0
  ELSE Sum([i \in 1..(Len(tree.elems) - 1) |->
              Collapsible(tree.elems[i + 1])
              + IF /\ tree.elems[1].k = "string"
                   /\ tree.elems[1].str \in VariadicTags
                   /\ HasOperator(tree.elems[i + 1], tree.elems[1].str)
                THEN 1 ELSE 0])

\* C4: normalization is idempotent and pure: normalizing a normalized tree
\* changes nothing, and normalizing a raw tree does nothing but collapse
\* each node that is an operand of a node with the same variadic tag: the
\* leaves stay in their left-to-right order, exactly the collapsible nodes
\* disappear, and a tree without any is returned as it is.
C4_NormalizeIdempotentPure ==
  /\ pc = "normal2" => out2.tree = out1.tree
  /\ pc \in {"normal", "normal2"} =>
       /\ Leaves(out1.tree) = Leaves(job.raw)
       /\ NodeCount(out1.tree) = NodeCount(job.raw) - Collapsible(job.raw)
       /\ Collapsible(job.raw) = 0 => out1.tree = job.raw
       /\ NoSameTagChild(out1.tree)

\* C4, its case: a raw tree with nodes to collapse, normalized twice
C4_Witness == pc = "normal2" /\ Collapsible(job.raw) >= 2 /\ out2.tree = out1.tree

\* the first convert of the job has returned or thrown, and nothing has
\* been done with the result
Parsed == pc \in {"tree", "rejected"}

\* the operand a part of a sum stands for: the tree of the term, inside a
\* unary minus when a - is written before the term
SumOperand(part) ==
  IF part.sign = <<"-">> THEN Node(<<"-">>, <<part.term.tree>>) ELSE part.term.tree

\* the operands of the flat sum: an operand that is itself a sum (a
\* parenthesised sum after a +, or as the first term) gives its operands
Summands(parts) ==
  Concat([i \in 1..Len(parts) |->
            IF HasOperator(SumOperand(parts[i]), <<"+">>)
            THEN Operands(SumOperand(parts[i]))
            ELSE <<SumOperand(parts[i])>>])

RECURSIVE HasBinaryMinus(_)
\* some node of the tree is a - with two operands
HasBinaryMinus(tree) ==
  /\ IsArray(tree)
  /\ \/ HasOperator(tree, <<"-">>) /\ Len(tree.elems) = 3
     \/ \E i \in 1..Len(tree.elems) : HasBinaryMinus(tree.elems[i])

RECURSIVE RunEnd(_, _)
\* the last relation of the maximal run of one direction that starts at i
RunEnd(parts, i) ==
  IF i < Len(parts) /\ parts[i + 1].dir = parts[i].dir THEN RunEnd(parts, i + 1) ELSE i

\* the node for the run of the relations i..j after the tree lhs
RunNode(lhs, parts, i, j) ==
  LET operands == [k \in 1..(j - i + 1) |-> Str(RelationOperand(i + k))]
  IN IF parts[i].dir = "eq" THEN Node(<<"=">>, <<lhs>> \o operands)
     ELSE IF j = i THEN Node(parts[i].op, <<lhs, operands[1]>>)
     ELSE Node(IF parts[i].dir = "lt" THEN S.lts ELSE S.gts,
               <<Node(S.tuple, <<lhs>> \o operands),
                 Node(S.tuple, [k \in 1..(j - i + 1) |-> Bool(parts[i + k - 1].strict)])>>)

RECURSIVE Chain(_, _, _)
\* the tree of a chain: its maximal runs folded from the left
Chain(lhs, parts, i) ==
  IF i > Len(parts) THEN lhs
  ELSE Chain(RunNode(lhs, parts, i, RunEnd(parts, i)), parts, RunEnd(parts, i) + 1)

RECURSIVE StrictLengths(_)
\* every lts and gts node of the tree has one strictness flag for each pair
\* of neighbouring operands
StrictLengths(tree) ==
  \/ ~IsArray(tree)
  \/ /\ \A i \in 1..Len(tree.elems) : StrictLengths(tree.elems[i])
     /\ (HasOperator(tree, S.lts) \/ HasOperator(tree, S.gts)) =>
          /\ Len(tree.elems) = 3
          /\ HasOperator(tree.elems[2], S.tuple)
          /\ HasOperator(tree.elems[3], S.tuple)
          /\ Len(Operands(tree.elems[3])) = Len(Operands(tree.elems[2])) - 1
          /\ \A i \in 1..Len(Operands(tree.elems[3])) : Operands(tree.elems[3])[i].k = "boolean"

\* C6: a maximal run a r1 b r2 c ... of k >= 2 relations of one family
\* (all from {<, <=}, all from {>, >=}, or all =) becomes one node: lts or
\* gts with the tuple of the operands and the tuple of the strictness
\* flags (true for < and >), or ['=', a, b, c, ...]; a run of one relation
\* is a binary node; the strictness tuple has one flag less than there are
\* operands.
C6_ChainedRelations ==
  (job.family = "relations" /\ Parsed) =>
    /\ out1.ok
    /\ out1.tree = Chain(Str(RelationOperand(1)), job.parts, 1)
    /\ StrictLengths(out1.tree)

\* a run of MaxRelations relations from {<, <=}, strict and not strict, has
\* been parsed to one lts node
C6_Witness ==
  /\ job.family = "relations" /\ pc = "tree"
  /\ Len(job.parts) = MaxRelations
  /\ \A i \in 1..Len(job.parts) : job.parts[i].dir = "lt"
  /\ \E i, j \in 1..Len(job.parts) : job.parts[i].strict /\ ~job.parts[j].strict
  /\ HasOperator(out1.tree, S.lts)
  /\ Len(Operands(out1.tree.elems[3])) = MaxRelations

RECURSIVE Comparisons(_, _)
\* the number of comparisons held by the nodes of the tree with this
\* operator: the strictness flags of lts and gts nodes
Comparisons(tree, operator) ==
  IF ~IsArray(tree) THEN 0
  ELSE (IF HasOperator(tree, operator) THEN Len(Operands(tree.elems[3])) ELSE 0)
       + Sum([i \in 1..Len(tree.elems) |-> Comparisons(tree.elems[i], operator)])

\* the relations of the direction dir that have a neighbour of that
\* direction
Chained(parts, dir) ==
  {i \in 1..Len(parts) :
     /\ parts[i].dir = dir
     /\ \/ i > 1 /\ parts[i - 1].dir = dir
        \/ i < Len(parts) /\ parts[i + 1].dir = dir}

\* C7: comparisons of opposite directions never share a chain and are not
\* an error: a op1 b op2 c with op1 from {<, <=} and op2 from {>, >=}, or
\* the reverse, parses to [op2, [op1, a, b], c]; every chain of relations
\* is accepted; the lts nodes hold exactly the comparisons from {<, <=}
\* that stand next to another one, and the gts nodes those from {>, >=}.
C7_OppositeDirections ==
  (job.family = "relations" /\ Parsed) =>
    /\ pc # "rejected"
    /\ (/\ Len(job.parts) = 2
        /\ {job.parts[1].dir, job.parts[2].dir} = {"lt", "gt"})
         => out1.tree =
              Node(job.parts[2].op,
                   <<Node(job.parts[1].op,
                          <<Str(RelationOperand(1)), Str(RelationOperand(2))>>),
                     Str(RelationOperand(3))>>)
    /\ Comparisons(out1.tree, S.lts) = Cardinality(Chained(job.parts, "lt"))
    /\ Comparisons(out1.tree, S.gts) = Cardinality(Chained(job.parts, "gt"))

\* a chain that changes direction after two relations of one direction has
\* been parsed: the first two in one node, the third outside it
C7_Witness ==
  /\ job.family = "relations" /\ pc = "tree"
  /\ Len(job.parts) = 3
  /\ job.parts[1].dir = "lt" /\ job.parts[2].dir = "lt" /\ job.parts[3].dir = "gt"
  /\ HasOperator(out1.tree, job.parts[3].op)
  /\ HasOperator(out1.tree.elems[2], S.lts)
  /\ Comparisons(out1.tree, S.lts) = 2

\* the input of a job of family "primaries" with a * between the primaries
Explicit(parts) == JoinWith(PrimaryTexts(parts), <<"*">>)

RECURSIVE LeftProduct(_, _)
\* the product term builds: ['*', lhs, factor] for one factor after the
\* other
LeftProduct(lhs, factors) ==
  IF Len(factors) = 0 THEN lhs
  ELSE LeftProduct(Node(<<"*">>, <<lhs, factors[1]>>), Drop(2, factors))

\* C8: juxtaposition is multiplication: primaries p1 p2 ... pk written
\* next to each other parse to the tree of p1*p2*...*pk; the tree that
\* statement_list builds for them is the product of the trees of the
\* primaries, multiplied in from left to right.
C8_Juxtaposition ==
  (job.family = "primaries" /\ Parsed) =>
    /\ out1.ok
    /\ out1.tree = convert(textToAst(job.options), StringValue(Explicit(job.parts))).tree
    /\ raw_tree(textToAst(job.options), job.input) =
         LeftProduct(job.parts.primaries[1].tree,
                     [i \in 1..(Len(job.parts.primaries) - 1) |->
                        job.parts.primaries[i + 1].tree])

\* MaxPrimaries primaries with nothing between them, a function
\* application and a group among them, have been parsed to a product
C8_Witness ==
  /\ job.family = "primaries" /\ pc = "tree"
  /\ job.parts.sep = <<>>
  /\ Len(job.parts.primaries) = MaxPrimaries
  /\ \E i, j \in 1..MaxPrimaries :
       /\ HasOperator(job.parts.primaries[i].tree, S.apply)
       /\ HasOperator(job.parts.primaries[j].tree, <<"+">>)
  /\ HasOperator(out1.tree, <<"*">>)
  /\ Len(Operands(out1.tree)) = MaxPrimaries

\* the tree of an input of family "identifier" in which the identifier
\* stands for the tree core
Around(parts, core) ==
  LET powered == IF parts.post = <<>> THEN core
                 ELSE Node(<<"^">>, <<core, Num(Decimal(2, 0))>>)
  IN IF parts.pre = <<>> THEN powered
     ELSE Node(<<"*">>, <<Num(Decimal(2, 0)), powered>>)

\* the input of a job of family "identifier" with the letters of the
\* identifier separated by spaces
Spaced(parts) ==
  parts.pre
  \o JoinWith([i \in 1..Len(parts.ident.name) |-> <<parts.ident.name[i]>>], <<" ">>)
  \o parts.post

\* the conditions the identifier is split under: splitSymbols is true, the
\* identifier has more than one character and no digit, and is not in
\* unsplitSymbols
SplitConditions(options, name) ==
  /\ options.splitSymbols
  /\ Len(name) > 1
  /\ \A i \in 1..Len(name) : name[i] \notin Digits
  /\ \A i \in 1..Len(options.unsplitSymbols) : options.unsplitSymbols[i] # name

\* the parse of a job of family "identifier": split, the result is the
\* parse of the input with the letters separated by spaces; not split, the
\* identifier is one Symbol
IdentifierParse(is_split) ==
  /\ out1.ok
  /\ is_split =>
       out1.tree = convert(textToAst(job.options), StringValue(Spaced(job.parts))).tree
  /\ ~is_split => out1.tree = Around(job.parts, Str(job.parts.ident.name))

\* C9, as stated: an identifier token that is no function name is re-lexed
\* one character at a time exactly when splitSymbols is true, it has more
\* than one character, contains no digit and is not in unsplitSymbols; the
\* parse then equals the parse of the input with the letters separated by
\* spaces; in every other case the identifier stays one Symbol.
C9_SplitExactlyWhen ==
  (job.family = "identifier" /\ Parsed) =>
    IdentifierParse(SplitConditions(job.options, job.parts.ident.name))

\* C9, amended: the identifier is split exactly when, in addition, its
\* token is a VAR token and not a VARMULTICHAR token (a Greek letter is
\* read as the VARMULTICHAR token of its name and is never split).
C9_SplitVarTokens ==
  (job.family = "identifier" /\ Parsed) =>
    IdentifierParse(/\ SplitConditions(job.options, job.parts.ident.name)
                    /\ job.parts.ident.text = job.parts.ident.name)

\* an identifier of MaxIdentLen letters, after a 2 and with an exponent,
\* has been split with an unsplitSymbols that is not the default
C9_Witness ==
  /\ job.family = "identifier" /\ pc = "tree"
  /\ job.parts.ident.name = job.parts.ident.text
  /\ Len(job.parts.ident.name) = MaxIdentLen
  /\ job.parts.pre # <<>> /\ job.parts.post # <<>>
  /\ job.options.unsplitSymbols # unsplitSymbolsDefault
  /\ SplitConditions(job.options, job.parts.ident.name)
  /\ HasOperator(out1.tree, <<"*">>)
  /\ Len(Operands(out1.tree)) = MaxIdentLen + 1
  /\ out1.tree = convert(textToAst(job.options), StringValue(Spaced(job.parts))).tree

\* the function of an application: the name with its subscript, prime and
\* exponent
AppliedFunction(parts) ==
  LET subscripted_name == IF parts.mods.subscript
                          THEN Node(<<"_">>, <<Str(parts.name), Num(Decimal(2, 0))>>)
                          ELSE Str(parts.name)
      primed == IF parts.mods.primes THEN Node(S.prime, <<subscripted_name>>)
                ELSE subscripted_name
  IN IF parts.mods.exponent THEN Node(<<"^">>, <<primed, Num(Decimal(2, 0))>>) ELSE primed

\* the tree of an input of family "application" when the argument is
\* applied
Application(parts) ==
  LET call == Node(S.apply, <<AppliedFunction(parts), parts.arg.tree>>)
  IN IF parts.arg.rest = False THEN call ELSE Node(<<"*">>, <<call, parts.arg.rest>>)

\* C10: simplified application gating: when an applied function name, after
\* its optional subscript, primes and exponent, is not followed by (, then
\* with allowSimplifiedFunctionApplication true the next factor becomes its
\* single argument, and with it false convert throws the ParseError that
\* expects ( and returns no tree.
C10_SimplifiedApplication ==
  (job.family = "application" /\ Parsed) =>
    IF job.options.allowSimplifiedFunctionApplication \/ ~job.parts.arg.bare
    THEN out1.ok /\ out1.tree = Application(job.parts)
    ELSE /\ pc = "rejected"
         /\ ~out1.ok
         /\ out1.err.msg = "Expected ( after function"
         /\ out1.tree = False

\* a function with subscript, prime and exponent has been applied to a
\* negated factor written without parentheses
C10_Witness ==
  /\ job.family = "application" /\ pc = "tree"
  /\ job.options.allowSimplifiedFunctionApplication
  /\ job.parts.arg.bare
  /\ job.parts.mods.subscript /\ job.parts.mods.primes /\ job.parts.mods.exponent
  /\ HasOperator(job.parts.arg.tree, <<"-">>)
  /\ out1.tree = Application(job.parts)

\* the tree of an input of family "named" whose identifier stands for the
\* tree core: what follows is added to it
WithSum(parts, core) ==
  IF parts.follower.sum THEN Node(<<"+">>, <<core, Str(<<"g">>)>>) ELSE core

\* the input of a job of family "named" with the letters of the identifier
\* written apart
LettersApart(parts) ==
  JoinWith([i \in 1..Len(parts.ident) |-> <<parts.ident[i]>>], <<" ">>)
  \o parts.follower.text

\* the product of the symbols a (possibly split) identifier stands for and
\* the group after it
SymbolsTimesGroup(options, parts) ==
  Node(<<"*">>,
       (IF SplitConditions(options, parts.ident)
        THEN [i \in 1..Len(parts.ident) |-> Str(<<parts.ident[i]>>)]
        ELSE <<Str(parts.ident)>>)
       \o <<parts.follower.arg>>)

IsFunctionName(options, name) ==
  Includes(options.functionSymbols, name) \/ Includes(options.appliedFunctionSymbols, name)

\* C11, as stated: an identifier followed by a parenthesised group is parsed
\* as function application exactly when the identifier is in functionSymbols
\* or appliedFunctionSymbols, otherwise as the implicit product of the
\* (possibly split) identifier and the group; a bare-function name not
\* followed by ( is an ordinary symbol, and an applied-function name with
\* no argument at all is a ParseError.
C11_ApplicationExactlyWhen ==
  (job.family = "named" /\ Parsed) =>
    LET name == job.parts.ident
        follower == job.parts.follower
    IN CASE follower.group /\ IsFunctionName(job.options, name) ->
              /\ out1.ok /\ HasOperator(out1.tree, S.apply)
              /\ out1.tree.elems[3] = follower.arg
         [] follower.group ->
              out1.ok /\ out1.tree = SymbolsTimesGroup(job.options, job.parts)
         [] Includes(job.options.appliedFunctionSymbols, name) ->
              pc = "rejected" /\ out1.tree = False
         [] Includes(job.options.functionSymbols, name) ->
              out1.ok /\ out1.tree = WithSum(job.parts, Str(toLowerCase(name)))
         [] OTHER -> TRUE

\* C11, amended: an identifier token followed by a parenthesised group is
\* applied to the group exactly when the text of the token is in
\* functionSymbols or appliedFunctionSymbols, and the function of the node
\* is the lower-cased name; an identifier that is split parses as its
\* letters written apart and followed by the same text, so that the rule
\* holds again for its last letter; an identifier that is not split is
\* multiplied with the group.  A bare-function name not followed by ( is
\* the symbol of its lower-cased name, and an applied-function name with no
\* argument at all is a ParseError.
C11_AppliedIdentifierToken ==
  (job.family = "named" /\ Parsed) =>
    LET name == job.parts.ident
        follower == job.parts.follower
    IN CASE follower.group /\ IsFunctionName(job.options, name) ->
              /\ out1.ok
              /\ out1.tree = Node(S.apply, <<Str(toLowerCase(name)), follower.arg>>)
         [] Includes(job.options.appliedFunctionSymbols, name) ->
              pc = "rejected" /\ out1.tree = False
         [] Includes(job.options.functionSymbols, name) ->
              out1.ok /\ out1.tree = WithSum(job.parts, Str(toLowerCase(name)))
         [] SplitConditions(job.options, name) ->
              LET apart == convert(textToAst(job.options),
                                   StringValue(LettersApart(job.parts)))
              IN out1.ok = apart.ok /\ out1.tree = apart.tree
         [] follower.group ->
              out1.ok /\ out1.tree = Node(<<"*">>, <<Str(name), follower.arg>>)
         [] OTHER -> out1.ok /\ out1.tree = WithSum(job.parts, Str(name))

\* the identifier xf, which is no function name, has been split before a
\* group of two elements and its last letter f applied to the group
C11_Witness ==
  /\ job.family = "named" /\ pc = "tree"
  /\ job.options = DefaultOptions
  /\ job.parts.ident = <<"x", "f">>
  /\ HasOperator(job.parts.follower.arg, S.tuple)
  /\ out1.tree = Node(<<"*">>, <<Str(<<"x">>),
                                 Node(S.apply, <<Str(<<"f">>), job.parts.follower.arg>>)>>)

(***************************************************************************)
(* C12: the precedence of the operators                                    *)
(***************************************************************************)
\* the node of a binary operator: a - b is the sum of a and the negative of b
Binary(op, x, y) ==
  IF op.minus THEN Node(op.tag, <<x, Node(<<"-">>, <<y>>)>>) ELSE Node(op.tag, <<x, y>>)

Factorial(x) == Node(S.apply, <<Str(S.factorial), x>>)

\* the tree of an input of the family when the operator of the higher level
\* is grouped first; a prefix operator covers what the operators of its own
\* level and of the higher ones build
GroupedByLevel(parts) ==
  LET o == parts.operands.tree
      op1 == parts.first
      op2 == parts.second
  IN CASE parts.shape = "binary" ->
            IF op1.level < op2.level
            THEN Binary(op1, o[1], Binary(op2, o[2], o[3]))
            ELSE Binary(op2, Binary(op1, o[1], o[2]), o[3])
       [] parts.shape = "prefix" ->
            IF op2.level >= op1.level
            THEN Node(op1.tag, <<Binary(op2, o[1], o[2])>>)
            ELSE Binary(op2, Node(op1.tag, <<o[1]>>), o[2])
       [] parts.shape = "after" -> Binary(op2, o[1], Factorial(o[2]))
       [] OTHER -> Binary(op2, Factorial(o[1]), o[2])

\* C12: in both parsers, of two operators of different levels of the chain
\* comma list, or, and, relation (with the prefix not), sum, product
\* (explicit and implicit), unary minus, power and postfix, written without
\* brackets, the one of the higher level is grouped first.
C12_TighterGroupedFirst ==
  (job.family = "precedence" /\ Parsed) =>
    /\ pc = "tree"
    /\ out1.tree = GroupedByLevel(job.parts)

\* a \lor b \land c has been parsed by latexToAst as ['or','a',['and','b','c']]
C12_Witness ==
  /\ job.family = "precedence"
  /\ job.parts.flavour = "latex"
  /\ job.input = <<"a", " ", "\\", "l", "o", "r", " ", "b", " ", "\\", "l", "a", "n", "d", " ", "c">>
  /\ pc = "tree"
  /\ out1.tree = Node(<<"o", "r">>, <<Str(<<"a">>), Node(<<"a", "n", "d">>, <<Str(<<"b">>), Str(<<"c">>)>>)>>)

(***************************************************************************)
(* C13: postfix marks and exponents                                        *)
(***************************************************************************)
RECURSIVE Decorated(_, _)
\* the tree of a base followed by marks, one node for each mark, the first
\* mark innermost
Decorated(tree, marks) ==
  IF Len(marks) = 0 THEN tree
  ELSE LET inner == Decorated(tree, SubSeq(marks, 1, Len(marks) - 1))
       IN IF marks[Len(marks)] = "!" THEN Factorial(inner) ELSE Node(S.prime, <<inner>>)

RECURSIVE PowerTower(_)
\* the operands joined by ^ and grouped from the right
PowerTower(operands) ==
  IF Len(operands) = 1 THEN operands[1]
  ELSE Node(<<"^">>, <<operands[1], PowerTower(Tail(operands))>>)

\* C13: trailing ! and ' are applied to their base one mark at a time in
\* source order and bind tighter than ^, which takes the whole decorated
\* operand as its base and groups from the right.
C13_PostfixThenPower ==
  (job.family = "postfix" /\ Parsed) =>
    /\ pc = "tree"
    /\ out1.tree =
         PowerTower([i \in 1..Len(job.parts.marks) |->
                       Decorated(PostfixBase(job.parts, i).tree, job.parts.marks[i])])

\* x^2!! has been parsed: two factorials nested inside the exponent
C13_Witness ==
  /\ job.family = "postfix"
  /\ job.input = <<"x", "^", "2", "!", "!">>
  /\ pc = "tree"
  /\ out1.tree = Node(<<"^">>, <<Str(<<"x">>), Factorial(Factorial(Num(Decimal(2, 0))))>>)

(***************************************************************************)
(* C14: subscripts                                                         *)
(***************************************************************************)
Sub(x, y) == Node(<<"_">>, <<x, y>>)

Power(x, y) == Node(<<"^">>, <<x, y>>)

\* the tree the claim gives for each of the four shapes
SubscriptTree(parts) ==
  LET a == parts.a.tree
      b == parts.b.tree
      c == parts.c.tree
  IN CASE parts.shape = "a_b^c" -> Power(Sub(a, b), c)
       [] parts.shape = "a^b_c" -> Power(a, Sub(b, c))
       [] parts.shape = "a_b_c" -> Sub(a, Sub(b, c))
       [] OTHER -> Sub(Sub(a, b), c)

\* C14, as stated: for any primaries a, b, c, b a configured function name
\* included, a_b^c parses to ['^',['_',a,b],c], a^b_c to ['^',a,['_',b,c]],
\* a_b_c to ['_',a,['_',b,c]] and (a_b)_c to ['_',['_',a,b],c].
C14_SubscriptBelowPower ==
  (job.family = "subscript" /\ Parsed) =>
    /\ pc = "tree"
    /\ out1.tree = SubscriptTree(job.parts)

\* C14, amended: the four trees are those of the claim, except that in
\* a_b^c a subscript b that is a configured function name takes the
\* exponent with it: a_b^c is then ['_',a,['^',b,c]].
C14_SubscriptOfPrimaries ==
  (job.family = "subscript" /\ Parsed) =>
    /\ pc = "tree"
    /\ out1.tree =
         IF job.parts.shape = "a_b^c" /\ IsFunctionName(job.options, job.parts.b.text)
         THEN Sub(job.parts.a.tree, Power(job.parts.b.tree, job.parts.c.tree))
         ELSE SubscriptTree(job.parts)

\* x_f^2 has been parsed as ['_','x',['^','f',2]]
C14_Witness ==
  /\ job.family = "subscript"
  /\ job.input = <<"x", "_", "f", "^", "2">>
  /\ pc = "tree"
  /\ out1.tree = Sub(Str(<<"x">>), Power(Str(<<"f">>), Num(Decimal(2, 0))))

(***************************************************************************)
(* C15, C17: bracket groups                                                *)
(***************************************************************************)
\* the trees of the elements of a group, in source order
ElementTrees(parts) == [i \in 1..Len(parts.elements) |-> parts.elements[i].tree]

Curly(parts) == parts.pair.left \in {<<"{">>, <<"\\", "{">>}

\* the tree of a group whose curly brackets always build a set
GroupTree(parts) ==
  IF Len(parts.elements) >= 2 THEN Node(parts.pair.tag, ElementTrees(parts))
  ELSE IF Curly(parts) THEN Node(S.set, <<parts.elements[1].tree>>)
  ELSE parts.elements[1].tree

\* C15: in the text notation a group of one element is that element, except
\* that {x} is the singleton ['set', x]; two or more elements build a tuple
\* in ( ), an array in [ ], a set in { } and a list without brackets, the
\* elements in source order.
C15_TextGrouping ==
  (job.family = "brackets" /\ "latex" \notin DOMAIN job /\ Parsed) =>
    /\ pc = "tree"
    /\ out1.tree = GroupTree(job.parts)

\* C17, as stated: in latexToAst both { } and \{ \} with two or more
\* elements build a set, a single element in { } stays the singleton
\* ['set', x], and ( ) and [ ] unwrap a single element.
C17_LatexCurlySets ==
  (job.family = "brackets" /\ "latex" \in DOMAIN job /\ Parsed) =>
    LET parts == job.parts
    IN CASE Curly(parts) /\ Len(parts.elements) >= 2 ->
              pc = "tree" /\ out1.tree = Node(S.set, ElementTrees(parts))
         [] parts.pair.left = <<"{">> ->
              pc = "tree" /\ out1.tree = Node(S.set, ElementTrees(parts))
         [] parts.pair.left \in {<<"(">>, <<"[">>} /\ Len(parts.elements) = 1 ->
              pc = "tree" /\ out1.tree = parts.elements[1].tree
         [] OTHER -> TRUE

\* C17, amended: in latexToAst only \{ \} is the bracket of sets: with two
\* or more elements \{ \} builds a set and { } builds a tuple, as ( ) does,
\* and a single element in { } is that element, as it is in ( ) and [ ].
C17_LatexBraces ==
  (job.family = "brackets" /\ "latex" \in DOMAIN job /\ Parsed) =>
    LET parts == job.parts
    IN CASE parts.pair.left = <<"\\", "{">> /\ Len(parts.elements) >= 2 ->
              pc = "tree" /\ out1.tree = Node(S.set, ElementTrees(parts))
         [] parts.pair.left \in {<<"{">>, <<"(">>} /\ Len(parts.elements) >= 2 ->
              pc = "tree" /\ out1.tree = Node(S.tuple, ElementTrees(parts))
         [] parts.pair.left \in {<<"{">>, <<"(">>, <<"[">>} /\ Len(parts.elements) = 1 ->
              pc = "tree" /\ out1.tree = parts.elements[1].tree
         [] OTHER -> TRUE

\* {a,2} has been parsed by latexToAst as the tuple of a and 2
C17_Witness ==
  /\ job.family = "brackets"
  /\ "latex" \in DOMAIN job
  /\ job.input = <<"{", "a", ",", "2", "}">>
  /\ pc = "tree"
  /\ out1.tree = Node(S.tuple, <<Str(<<"a">>), Num(Decimal(2, 0))>>)

(***************************************************************************)
(* C16: intervals                                                          *)
(***************************************************************************)
\* the bracket that closes a group opened by left
Matching(left) ==
  CASE left = <<"(">> -> <<")">>
    [] left = <<"[">> -> <<"]">>
    [] OTHER -> <<"}">>

\* ( closed by ] or [ closed by )
HalfOpen(parts) ==
  \/ parts.left = <<"(">> /\ parts.right = <<"]">>
  \/ parts.left = <<"[">> /\ parts.right = <<")">>

RECURSIVE HasInterval(_)
\* an interval node is somewhere in the tree
HasInterval(tree) ==
  /\ IsArray(tree)
  /\ \/ HasOperator(tree, S.interval)
     \/ \E i \in 1..Len(tree.elems) : HasInterval(tree.elems[i])

\* C16: a group opened by ( or [ and closed by the other of ) and ] is an
\* interval exactly when it has two elements, with the flags (false, true)
\* for (a,b] and (true, false) for [a,b) and the endpoints in source order;
\* every other group that its matching bracket does not close is a
\* ParseError and yields no tree; a group its matching bracket closes is no
\* interval.
C16_IntervalExactlyWhen ==
  (job.family = "closing" /\ Parsed) =>
    LET parts == job.parts
    IN CASE parts.right = Matching(parts.left) ->
              pc = "tree" /\ ~HasInterval(out1.tree)
         [] HalfOpen(parts) /\ Len(parts.elements) = 2 ->
              /\ pc = "tree"
              /\ out1.tree =
                   Node(S.interval,
                        <<Node(S.tuple, ElementTrees(parts)),
                          Node(S.tuple, <<Bool(parts.left = <<"[">>),
                                          Bool(parts.right = <<"]">>)>>)>>)
         [] OTHER ->
              /\ pc = "rejected"
              /\ out1.tree = False
              /\ out1.err.msg \in {"Expected ", "Expected ) or ]"}

\* [a,x+y) has been parsed as the interval closed on the left
C16_Witness ==
  /\ job.family = "closing"
  /\ job.input = <<"[", "a", ",", "x", "+", "y", ")">>
  /\ pc = "tree"
  /\ HasOperator(out1.tree, S.interval)
  /\ out1.tree.elems[3] = Node(S.tuple, <<Bool(TRUE), Bool(FALSE)>>)

(***************************************************************************)
(* C18: Greek letters                                                      *)
(***************************************************************************)
\* C18: every Greek letter of the table of text_rules, alone, parses to the
\* Symbol of its ASCII name and is not split into letters, whatever
\* splitSymbols and unsplitSymbols are.
C18_GreekGlyphs ==
  (job.family = "greek" /\ Parsed) =>
    /\ pc = "tree"
    /\ out1.tree = Str(job.parts.name)

(***************************************************************************)
(* C19: \frac and \sqrt                                                    *)
(***************************************************************************)
SquareRoot(a) == Node(S.apply, <<Str(<<"s", "q", "r", "t">>), a>>)

RootPower(a, n) == Node(<<"^">>, <<a, Node(<<"/">>, <<Num(Decimal(1, 0)), n>>)>>)

\* C19, as stated: \frac{a}{b} yields ['/', a, b], \sqrt{a} yields
\* ['apply','sqrt', a] and \sqrt[n]{a} yields ['^', a, ['/', 1, n]] for
\* every index n; a missing { , } or ] raises a ParseError.
C19_LeafProductions ==
  (job.family = "radicals" /\ Parsed) =>
    LET parts == job.parts
    IN CASE parts.missing # 0 -> pc = "rejected" /\ out1.tree = False
         [] parts.shape = "frac" ->
              pc = "tree" /\ out1.tree = Node(<<"/">>, <<parts.a.tree, parts.b.tree>>)
         [] parts.shape = "sqrt" ->
              pc = "tree" /\ out1.tree = SquareRoot(parts.a.tree)
         [] OTHER ->
              pc = "tree" /\ out1.tree = RootPower(parts.a.tree, parts.b.tree)

\* C19, amended: \sqrt[n]{a} yields ['^', a, ['/', 1, n]] for every index n
\* that JS does not compare equal to 2, and ['apply','sqrt', a] for the
\* index 2 and for a name \var{...} that reads as the number 2; the rest
\* as stated.
C19_LeafProductionsButTwo ==
  (job.family = "radicals" /\ Parsed) =>
    LET parts == job.parts
    IN CASE parts.missing # 0 -> pc = "rejected" /\ out1.tree = False
         [] parts.shape = "frac" ->
              pc = "tree" /\ out1.tree = Node(<<"/">>, <<parts.a.tree, parts.b.tree>>)
         [] parts.shape = "sqrt" \/ parts.b.two ->
              pc = "tree" /\ out1.tree = SquareRoot(parts.a.tree)
         [] OTHER ->
              pc = "tree" /\ out1.tree = RootPower(parts.a.tree, parts.b.tree)

\* \sqrt[2]{x+1} has been parsed as ['apply','sqrt',['+','x',1]]
C19_Witness ==
  /\ job.family = "radicals"
  /\ job.input = <<"\\", "s", "q", "r", "t", "[", "2", "]", "{", "x", "+", "1", "}">>
  /\ pc = "tree"
  /\ out1.tree = SquareRoot(Node(<<"+">>, <<Str(<<"x">>), Num(Decimal(1, 0))>>))

(***************************************************************************)
(* C20: the error of a malformed input                                     *)
(***************************************************************************)
\* the offset, from 0, of the first character of the token of a malformed
\* input; the length of the input when the input ends too early
TokenStart(parts) == Len(parts.beginning) + Len(parts.space)

\* the ParseError of the run, with a message and no tree
Raised == pc = "rejected" /\ out1.tree = False /\ out1.err.msg # ""

C21_InvalidSymbolNamed ==
  (job.family = "malformed" /\ job.parts.kind = "symbol" /\ Parsed) =>
    /\ Raised
    /\ out1.err.location = TokenStart(job.parts)
    /\ out1.err.msg = "Invalid symbol '"
    /\ out1.err.arg = job.parts.token

(***************************************************************************)
(* C22: the two output modes of astToText                                  *)
(***************************************************************************)
\* C22: for every tree that textToAst.convert produces, the string printed
\* with output_unicode true and the string printed with output_unicode
\* false are both accepted by textToAst.convert and parse back to the same
\* tree.
C22_BothModesParseable ==
  job.family = "modes" =>
    /\ pc \notin {"unprintable", "rejected2"}
    /\ Reparsed => out2.tree = out1.tree

(***************************************************************************)
(* C23: the printer and malformed trees                                    *)
(***************************************************************************)
Printed == pc \in {"text", "unprintable"}

\* C23: astToText.convert reports an error for a tree in which a node, at
\* any depth, lacks an operand of its tag or carries an unknown tag, and
\* returns a string for every well-formed tree, whatever its tag (matrix
\* and interval included).
C23_PrinterTotalOrInvalid ==
  (job.family = "printer" /\ Printed) =>
    IF job.parts.shape = "wellformed" THEN pc = "text" ELSE pc = "unprintable"

(***************************************************************************)
(* C24: lexer.advance                                                      *)
(***************************************************************************)
\* what advance must leave for the lexer lx: the rules that match at the
\* head of the input behind its leading whitespace, the first of them in
\* the order of the table decides the token and the text removed
FirstRuleTaken(rules, lx, after, token) ==
  LET n_whitespace == CountIn(Whitespace, lx.input, 1)
      head == Drop(n_whitespace + 1, lx.input)
      matching == {j \in 1..Len(rules) : MatchLen(rules[j], head) > 0}
  IN (head # <<>> /\ matching # {}) =>
       \E j \in matching :
         /\ \A l \in matching : j <= l
         /\ token.type = rules[j].type
         /\ after.input = Drop(MatchLen(rules[j], head) + 1, head)
         /\ after.location = lx.location + n_whitespace + MatchLen(rules[j], head)
         /\ token.text = IF rules[j].lit THEN rules[j].text
                         ELSE SubSeq(head, 1, MatchLen(rules[j], head))

\* C24: advance returns the token of the first rule of the table, in table
\* order, that matches at the head of the remaining input, and removes
\* exactly the text matched; the text of the token is the literal of the
\* rule when it has one, the text matched otherwise; with no input left
\* advance returns EOF and changes neither input nor location.
C24_FirstMatchWins ==
  [][LexerAdvance =>
       /\ FirstRuleTaken(token_rules(out1.p), out1.p.lexer, out1'.p.lexer, out1'.p.token)
       /\ out1.p.lexer.input = <<>> =>
            /\ out1'.p.token.type = "EOF"
            /\ out1'.p.lexer = out1.p.lexer]_vars

\* dx/dy has been read as one DERIVATIVE token, by the rule that comes
\* before the rule of VAR, which matches dx
C24_FirstMatchWins_witness ==
  /\ job.family = "lexer" /\ pc = "lexing"
  /\ text1.v = <<"d", "x", "/", "d", "y">>
  /\ out1.p.token = Token("DERIVATIVE", <<"d", "x", "/", "d", "y">>)
  /\ out1.p.lexer = [input |-> <<>>, location |-> 5]

(***************************************************************************)
(* C26: the bookkeeping of the location                                    *)
(***************************************************************************)
\* C26: after any sequence of calls of set_input, advance and unput, the
\* location plus the length of the remaining input is the length of the
\* text given to the last set_input.
C26_OffsetBookkeeping ==
  (job.family = "lexer" /\ pc = "lexing") =>
    out1.p.lexer.location + Len(out1.p.lexer.input) = Len(text1.v)

\* x y was set, x was read and a space was put back: the input is as long
\* as the text and the location is 0
C26_OffsetBookkeeping_witness ==
  /\ job.family = "lexer" /\ pc = "lexing"
  /\ text1.v = <<"x", " ", "y">>
  /\ out1.p.token = Token("VAR", <<"x">>)
  /\ out1.p.lexer = [input |-> <<" ", " ", "y">>, location |-> 0]

(***************************************************************************)
(* C25: the spacing commands of LaTeX                                      *)
(***************************************************************************)
\* C25: the tokenizer of the LaTeX parser skips the spacing commands
\* \, \; \! \: \> \quad and \qquad like spaces: an input that holds one of
\* them parses to the tree of the input without it, when that input has a
\* tree.
C25_SpacingCommandsSkipped ==
  (job.family = "spacing" /\ Parsed) =>
    LET without == convert(latexToAst(job.options),
                           StringValue(job.parts.left \o job.parts.right))
    IN without.ok => (out1.ok /\ out1.tree = without.tree)

(***************************************************************************)
(* C27: calls of convert on one instance                                   *)
(***************************************************************************)
\* the fields of an instance that its constructor has set from the options
Configuration(p) ==
  [name \in DOMAIN p \ {"lexer", "token", "err"} |-> p[name]]

\* C27: the outcome of a call of convert on an instance that an earlier
\* call has used, whether that call returned a tree or threw, is the
\* outcome of the same call on a fresh instance of the same configuration:
\* the same tree, or the same error message and location; the
\* configuration of the instance is what it was.
C27_SerialCallsIndependent ==
  (job.family = "serial" /\ pc \in {"tree2", "rejected2"}) =>
    LET fresh == convert(Converter(job), StringValue(job.parts.second))
    IN /\ out2.ok = fresh.ok
       /\ out2.tree = fresh.tree
       /\ out2.err = fresh.err
       /\ Configuration(out2.p) = Configuration(Converter(job))

\* the first call has thrown at the @ of ab@c, behind the letters of the
\* split ab, leaving c in the lexer; the second call returns the tree of
\* xy+1
C27_SerialCallsIndependent_witness ==
  /\ job.family = "serial" /\ pc = "tree2"
  /\ job.input = <<"a", "b", "@", "c">>
  /\ out1.p.lexer.input = <<"@", "c">>
  /\ job.parts.second = <<"x", "y", "+", "1">>
  /\ out2.tree = Node(<<"+">>, <<Node(<<"*">>, <<Str(<<"x">>), Str(<<"y">>)>>), Num(Decimal(1, 0))>>)

(***************************************************************************)
(* C28: the matrix environments                                            *)
(***************************************************************************)
Zero == Num(Decimal(0, 0))

\* the widest row of the rows of cells
Widest(rows) ==
  CHOOSE n \in {Len(rows[r]) : r \in 1..Len(rows)} : \A r \in 1..Len(rows) : Len(rows[r]) <= n

\* the tree of the claim for rows of cells: the counts, and one tuple a row,
\* an empty cell and a cell that a shorter row lacks being 0
MatrixOf(rows) ==
  Node(S.matrix,
       <<Node(S.tuple, <<Num(Decimal(Len(rows), 0)), Num(Decimal(Widest(rows), 0))>>),
         Node(S.tuple,
              [r \in 1..Len(rows) |->
                 Node(S.tuple,
                      [c \in 1..Widest(rows) |->
                         IF c > Len(rows[r]) \/ rows[r][c] = <<>> THEN Zero
                         ELSE Str(rows[r][c])])])>>)

\* C28: for a matrix, pmatrix or bmatrix environment, latexToAst.convert
\* returns ['matrix', ['tuple', n_rows, n_cols], body], body holding one
\* tuple a row and every row tuple n_cols entries in the order of the
\* source, 0 for an empty cell and for the cells a shorter row lacks; an
\* \end of another name, and any other environment, is a ParseError.
C28_MatrixShape ==
  (job.family = "environment" /\ Parsed) =>
    IF job.parts.begin \in EnvironmentNames /\ job.parts.end = job.parts.begin
    THEN out1.ok /\ out1.tree = MatrixOf(job.parts.rows)
    ELSE Raised

(***************************************************************************)
(* C29: the location while convert runs                                    *)
(***************************************************************************)
\* C29: in every state of textToAst.convert, also while a symbol of more
\* than one letter is put back with spaces and read again, the location of
\* the lexer is an offset into the input: 0 <= location <= length(input).
C29_LocationWithinInput ==
  (job.family = "tokens" /\ pc \in {"advance", "unput", "done", "rejected"}) =>
    /\ 0 <= out1.p.lexer.location
    /\ out1.p.lexer.location <= Len(job.input)

(***************************************************************************)
(* C30: convert terminates                                                 *)
(***************************************************************************)
Returned == pc \in {"done", "rejected"}

\* the weight of the character at i of str: a space weighs 1, a letter or
\* digit next to another one 10, every other character 3
CharWeight(str, i) ==
  IF str[i] = " " THEN 1
  ELSE IF /\ str[i] \in WordChars
          /\ \/ (i > 1 /\ str[i - 1] \in WordChars)
             \/ (i < Len(str) /\ str[i + 1] \in WordChars)
       THEN 10
       ELSE 3

Weight(str) == Sum([i \in 1..Len(str) |-> CharWeight(str, i)])

\* the calls of unput that are still to be made: a space weighs 3 and a
\* letter 8, more than twice what they weigh once they are in the input
PendingWeight(calls) ==
  Sum([k \in 1..Len(calls) |-> IF calls[k] = <<" ">> THEN 3 ELSE 8])

\* the token that a loop holds and has not taken yet
HeldWeight(p) ==
  IF p.token.type = "EOF" THEN 0
  ELSE IF p.token_rules = "text_rules" /\ Splits(p) THEN Weight(p.token.text) + 1
  ELSE 1

\* what is left to do, as a natural number
Measure ==
  CASE pc \in {"tokens", "term", "rows"} -> 2 * Weight(job.input) + 2
    [] pc = "advance" -> 2 * Weight(out1.p.lexer.input) + 1
    [] pc = "unput" -> 2 * Weight(out1.p.lexer.input) + PendingWeight(locals)
    [] pc \in {"keepGoing", "while"} ->
         2 * Weight(out1.p.lexer.input) + HeldWeight(out1.p)
    [] OTHER -> 0

\* C30: convert ends, with a tree returned or a ParseError thrown, after
\* finitely many steps: every advance, every call of unput for a split
\* symbol, every pass of the loop of term and every pass of the loop of a
\* matrix environment either ends convert or makes Measure, a natural
\* number, smaller; a run has at most 2 * Weight(input) + 2 steps.
C30_ConvertTerminates ==
  [][LoopsNext => (Returned' \/ (Measure' < Measure /\ Measure' >= 0))]_vars

\* the loop of a matrix environment has met the end of the input behind a
\* separator and has ended with the error of statement
C30_ConvertTerminates_witness ==
  /\ job.family = "rows" /\ pc = "rejected"
  /\ job.input = <<"\\", "b", "e", "g", "i", "n", "{", "m", "a", "t", "r", "i", "x", "}", "x", "&">>
  /\ out1.p.err.msg = "Unexpected end of input"
  /\ locals.last_token = "&"
=============================================================================
